---- MODULE Spec2Model ----
(***************************************************************************)
(* Verification model of notioncli's core library and commands:           *)
(*   lib/paginate.js  - paginate (cursor pagination with a result cap)     *)
(*   lib/retry.js     - withRetry, isRateLimitError, calculateDelayMs      *)
(*   lib/context.js   - wrapNotionClient, buildProperties                  *)
(*   lib/helpers.js   - filters, relative dates, markdown, dynamic flags   *)
(*   lib/format.js    - buildPropValue                                     *)
(*   lib/config.js    - loadConfig, migrateConfig                          *)
(*   commands, bin    - query, add, update, init, workspace                *)
(* Each program is a specification of its own over the shared variables:   *)
(* SpecPaginate, SpecPaginateLive, SpecQuery, SpecRetry, SpecFilter,       *)
(* SpecCompound, SpecProp, SpecCmd, SpecMd, SpecDyn, SpecWs.               *)
(***************************************************************************)
EXTENDS Integers, Sequences, FiniteSets, TLC

(***************************************************************************)
(* Bounds of the model                                                     *)
(***************************************************************************)
MaxPages == 3        \* upstream pages per listing
MaxPageLen == 2      \* results per upstream page
MaxLimit == 4        \* largest caller-supplied limit
MaxPageSize == 2     \* largest caller-supplied pageSizeLimit
MaxAttemptsBound == 4 \* largest caller-supplied maxAttempts
MaxStrLen == 4       \* longest generated filter string
MaxQueryPages == 2   \* upstream pages of a listing the query command reads
MaxDispatchLines == 2 \* lines of a text that exercises the per-line dispatch
MaxFenceLines == 5   \* lines of a text that exercises fenced code blocks

(***************************************************************************)
(* Program constants                                                       *)
(***************************************************************************)
DefaultPageSizeLimit == 100
DefaultMaxAttempts == 3      \* withRetry: maxAttempts = 3
DefaultBaseDelayMs == 1000   \* withRetry: baseDelayMs = 1000
RateLimitStatus == 429
DocumentedMaxAttempts == 5   \* README / TECHNICAL.md: "up to 5 attempts"
QueryPageSizeLimit == 100    \* query: paginate(..., { limit, pageSizeLimit: 100 })

\* cursor values: undefined (never assigned), null, or the token of page k (k >= 1)
CursorUndefined == -1
CursorNull == 0

VARIABLES
  \* ---- paginate (lib/paginate.js) ----
  pages,          \* upstream: the raw responses fetchPage returns, in call order
  hasLimit,       \* options.limit != null
  limit,          \* Number(options.limit)
  optPageSize,    \* options.pageSizeLimit (0: not supplied)
  results,        \* accumulated results (item ids in upstream order)
  cursor,
  hasMore,
  truncated,
  responseBase,   \* index of the raw page kept as responseBase (0: null)
  lastPage,       \* index of the page the last fetch returned (0: none)
  cutMidPage,     \* the last fetched page was sliced to the remaining budget
  requests,       \* the fetchPage requests issued so far
  ret,            \* the value paginate returned
  endless,        \* the upstream never reports the end of the listing
  rejection,      \* what the failing fetchPage call rejected with
  thrown,         \* what paginate rejected with
  ppc,            \* position in paginate
  \* ---- withRetry (lib/retry.js) ----
  viaClient,      \* the call came through the wrapNotionClient proxy
  fnScript,       \* what fn does on its 1st, 2nd, ... invocation
  maxAttempts,
  baseDelayMs,
  jitter,
  hasOnRetry,     \* typeof onRetry === 'function'
  attempt,
  calls,          \* invocations of fn so far
  sleeps,         \* the delays passed to sleepFn, in order
  onRetryCalls,   \* the arguments of the onRetry calls, in order
  log,            \* the externally visible events of the call, in order
  retryResult,    \* resolved value / rejection reason
  rpc,            \* position in withRetry
  \* ---- filters (lib/helpers.js) ----
  filterStr,      \* the --filter argument, a sequence of characters
  tzEast,         \* the local time zone is east of Greenwich (UTC+h, h > 0)
  parsed,         \* parseFilterOperator(filterStr)
  filterResult,   \* buildFilterFromSchema(schema, filterStr)
  resolved,       \* resolveRelativeDate(filterStr)
  fpc,            \* position of the filter driver
  \* ---- compound filters (lib/helpers.js) ----
  filterStrs,     \* the repeated --filter arguments, in command-line order
  filters,        \* the conditions built so far
  fIdx,           \* index of the element the for-of loop is at
  compoundResult, \* buildCompoundFilter(schema, filterStrs)
  cpc,            \* position in buildCompoundFilter
  \* ---- property values (lib/format.js) ----
  propType,       \* the schema type of the property
  propRaw,        \* the raw value of a key=value argument
  built,          \* buildPropValue(propType, propRaw)
  bpc,            \* position of the buildPropValue driver
  \* ---- add / update commands (commands/pages.js, lib/context.js) ----
  command,        \* "add" or "update"
  target,         \* what the <database> / <page-or-alias> argument resolves to
  allProps,       \* [...opts.prop, ...dynamicProps]
  fromFile,       \* add --from: "none", "missing" or "md"
  kvIdx,          \* index of the kv the loop of buildProperties is at
  properties,     \* the properties object under construction: <<name, built>> pairs
  chunksLeft,     \* 100-block slices still to append
  netLog,         \* the Notion API requests issued so far, in order
  stderr,         \* the last error message printed
  exitCode,       \* process exit code (-1: still running)
  mpc,            \* position in the command action
  \* ---- markdown (lib/helpers.js) ----
  md,             \* the markdown text, a sequence of characters
  blocks,         \* markdownToBlocks(md)
  rendered,       \* blocksToMarkdown(blocks)
  reparsed,       \* markdownToBlocks(rendered)
  mdpc,           \* position of the markdown driver
  \* ---- dynamic property flags (lib/helpers.js) ----
  argv,           \* process.argv, a sequence of tokens
  props,          \* the "Key=Value" strings pushed so far
  argIdx,         \* the loop variable i, counted from 1
  dynResult,      \* extractDynamicProps(argv, knownFlags, schema)
  dpc,            \* position in extractDynamicProps
  \* ---- workspace profiles (bin/notion.js, lib/config.js) ----
  config,         \* the config file: activeWorkspace and the workspaces object
  wsCommand,      \* the last command run on it
  wsExit          \* exit code of that command

pagVars == <<pages, hasLimit, limit, optPageSize, results, cursor, hasMore,
             truncated, responseBase, lastPage, cutMidPage, requests, ret,
             endless, rejection, thrown, ppc>>

retryVars == <<viaClient, fnScript, maxAttempts, baseDelayMs, jitter, hasOnRetry,
               attempt, calls, sleeps, onRetryCalls, log, retryResult, rpc>>

filterVars == <<filterStr, tzEast, parsed, filterResult, resolved, fpc>>

compoundVars == <<filterStrs, filters, fIdx, compoundResult, cpc>>

propVars == <<propType, propRaw, built, bpc>>

cmdVars == <<command, target, allProps, fromFile, kvIdx, properties, chunksLeft,
             netLog, stderr, exitCode, mpc>>

mdVars == <<md, blocks, rendered, reparsed, mdpc>>

dynVars == <<argv, props, argIdx, dynResult, dpc>>

wsVars == <<config, wsCommand, wsExit>>

notPagVars ==
  <<retryVars, filterVars, compoundVars,
    propVars, cmdVars, mdVars, dynVars, wsVars>>
notRetryVars ==
  <<pagVars, filterVars, compoundVars,
    propVars, cmdVars, mdVars, dynVars, wsVars>>
notFilterVars ==
  <<pagVars, retryVars, compoundVars,
    propVars, cmdVars, mdVars, dynVars, wsVars>>
notCompoundVars ==
  <<pagVars, retryVars, filterVars,
    propVars, cmdVars, mdVars, dynVars, wsVars>>
notPropVars ==
  <<pagVars, retryVars, filterVars,
    compoundVars, cmdVars, mdVars, dynVars, wsVars>>
notCmdVars ==
  <<pagVars, retryVars, filterVars,
    compoundVars, propVars, mdVars, dynVars, wsVars>>
notMdVars ==
  <<pagVars, retryVars, filterVars,
    compoundVars, propVars, cmdVars, dynVars, wsVars>>
notDynVars ==
  <<pagVars, retryVars, filterVars,
    compoundVars, propVars, cmdVars, mdVars, wsVars>>
notWsVars ==
  <<pagVars, retryVars, filterVars,
    compoundVars, propVars, cmdVars, mdVars, dynVars>>

(***************************************************************************)
(* Helpers                                                                 *)
(***************************************************************************)
Min(a, b) == IF a <= b THEN a ELSE b

Range(lo, hi) == [i \in 1..(IF hi >= lo THEN hi - lo + 1 ELSE 0) |-> lo + i - 1]

RECURSIVE SumLen(_, _)
SumLen(ps, k) == IF k = 0 THEN 0 ELSE ps[k].n + SumLen(ps, k - 1)

\* the results array of upstream page k: its items, numbered in upstream order
PageResults(ps, k) == Range(SumLen(ps, k - 1) + 1, SumLen(ps, k))

\* every upstream page but the last reports has_more = true
PageHasMore(ps, k) == k < Len(ps)

\* the upstream page the k-th fetch returns: an upstream that never reports
\* the end returns its last page again for every further fetch
Served(ps, k) == Min(k, Len(ps))

OrNullDropsCursor(c) == CursorNull

\* res.next_cursor || null
OrNull(c) == IF c = CursorUndefined THEN CursorNull ELSE c

\* res.next_cursor of upstream page k (null when the page carries none)
PageNextCursor(ps, k) == IF ps[k].cur THEN k ELSE CursorNull

SliceKeepsAll(s, n) == s

\* Array.prototype.slice(0, n)
Slice(s, n) == SubSeq(s, 1, Min(n, Len(s)))

\* what an invocation of fn can do: return a value, or throw one of these
Ok == [kind |-> "ok", isObject |-> TRUE, status |-> 200, code |-> "none"]
ErrStatusOnly == [kind |-> "err", isObject |-> TRUE, status |-> RateLimitStatus,
                  code |-> "other"]
ErrCodeOnly == [kind |-> "err", isObject |-> TRUE, status |-> 400,
                code |-> "rate_limited"]
ErrBoth == [kind |-> "err", isObject |-> TRUE, status |-> RateLimitStatus,
            code |-> "rate_limited"]
ErrBadRequest == [kind |-> "err", isObject |-> TRUE, status |-> 400,
                  code |-> "invalid_request"]
ErrNonObject == [kind |-> "err", isObject |-> FALSE, status |-> 0, code |-> "none"]

RateLimitOutcomes == {ErrStatusOnly, ErrCodeOnly, ErrBoth}
FinalOutcomes == {Ok, ErrBadRequest, ErrNonObject}

NoRet == [results |-> <<>>, has_more |-> FALSE, next_cursor |-> CursorNull,
          truncated |-> FALSE, response |-> 0]

(***************************************************************************)
(* paginate                                                                *)
(***************************************************************************)
\* const pageSizeLimit = options.pageSizeLimit || 100
pageSizeLimit == IF optPageSize = 0 THEN DefaultPageSizeLimit ELSE optPageSize

\* limit - results.length (only read when a limit is set)
Remaining == limit - Len(results)

PageSizeIgnoresRemaining == pageSizeLimit

\* remaining == null ? pageSizeLimit : Math.min(pageSizeLimit, remaining)
PageSize == IF ~hasLimit THEN pageSizeLimit ELSE Min(pageSizeLimit, Remaining)

LimitMetIgnoringHasMore(len, more) == hasLimit /\ len >= limit

\* limit != null && results.length >= limit && hasMore   (after the push)
LimitMet(len, more) == hasLimit /\ len >= limit /\ more

\* limit != null && pageResults.length > 0 && remaining <= 0   (lines 33-38)
PostFetchBudgetSpent(pageResults) ==
  hasLimit /\ Len(pageResults) > 0 /\ Remaining <= 0

FinalHasMoreNever == FALSE

\* const finalHasMore = truncated ? true : false
FinalHasMore == truncated

\* const finalCursor = truncated ? cursor : null
FinalCursorAlwaysCursor == cursor

FinalCursor == IF truncated THEN cursor ELSE CursorNull

\* limit != null && pageResults.length > 0 && pageResults.length > remaining
Overshoots(pageResults) ==
  hasLimit /\ Len(pageResults) > 0 /\ Len(pageResults) > Remaining

PageChoice == [n : 0..MaxPageLen, cur : BOOLEAN]

\* the capacity of the request log: no call that returns issues more fetches
LogCapacity == MaxPages + MaxLimit + 1

\* lines 15-19: the locals of a call that has not started
PaginateLocals ==
  /\ results = <<>>
  /\ cursor = CursorUndefined
  /\ hasMore = TRUE
  /\ truncated = FALSE
  /\ responseBase = 0
  /\ lastPage = 0
  /\ cutMidPage = FALSE
  /\ requests = <<>>
  /\ ret = NoRet
  /\ rejection = Ok
  /\ thrown = Ok
  /\ ppc = "start"

PaginateInputs ==
  /\ pages \in UNION {[1..k -> PageChoice] : k \in 1..MaxPages}
  /\ endless = FALSE
  /\ hasLimit \in BOOLEAN
  /\ limit \in (IF hasLimit THEN -1..MaxLimit ELSE {0})
  /\ optPageSize \in 0..MaxPageSize
  /\ PaginateLocals

\* a call with a limit against an upstream that may never report the end
PaginateUnendingInputs ==
  /\ pages \in UNION {[1..k -> PageChoice] : k \in 1..MaxPages}
  /\ endless \in BOOLEAN
  /\ hasLimit = TRUE
  /\ limit \in -1..MaxLimit
  /\ optPageSize \in 0..MaxPageSize
  /\ PaginateLocals

\* lines 8-19: argument validation
PaginateInvalidLimit ==
  /\ ppc = "start"
  /\ hasLimit /\ limit < 0
  /\ ppc' = "threw"
  /\ UNCHANGED <<endless, rejection, thrown,
                 pages, hasLimit, limit, optPageSize, results, cursor, hasMore,
                 truncated, responseBase, lastPage, cutMidPage, requests, ret>>
  /\ UNCHANGED notPagVars

PaginateEnter ==
  /\ ppc = "start"
  /\ ~(hasLimit /\ limit < 0)
  /\ ppc' = "loop"
  /\ UNCHANGED <<endless, rejection, thrown,
                 pages, hasLimit, limit, optPageSize, results, cursor, hasMore,
                 truncated, responseBase, lastPage, cutMidPage, requests, ret>>
  /\ UNCHANGED notPagVars

\* lines 21-26: the limit is already satisfied at the top of the loop
LoopLimitSatisfied ==
  /\ ppc = "loop"
  /\ hasMore
  /\ hasLimit /\ Remaining <= 0
  /\ truncated' = TRUE
  /\ ppc' = "return"
  /\ UNCHANGED <<endless, rejection, thrown,
                 pages, hasLimit, limit, optPageSize, results, cursor, hasMore,
                 responseBase, lastPage, cutMidPage, requests, ret>>
  /\ UNCHANGED notPagVars

\* lines 21, 28-29: issue the next fetchPage({start_cursor, page_size})
LoopFetch ==
  /\ ppc = "loop"
  /\ hasMore
  /\ ~(hasLimit /\ Remaining <= 0)
  /\ requests' = IF Len(requests) < LogCapacity
                    THEN Append(requests,
                                [start_cursor |-> cursor, page_size |-> PageSize])
                    ELSE requests
  /\ ppc' = "await"
  /\ UNCHANGED <<endless, rejection, thrown,
                 pages, hasLimit, limit, optPageSize, results, cursor, hasMore,
                 truncated, responseBase, lastPage, cutMidPage, ret>>
  /\ UNCHANGED notPagVars

\* line 21: while (hasMore) is false
LoopExit ==
  /\ ppc = "loop"
  /\ ~hasMore
  /\ ppc' = "return"
  /\ UNCHANGED <<endless, rejection, thrown,
                 pages, hasLimit, limit, optPageSize, results, cursor, hasMore,
                 truncated, responseBase, lastPage, cutMidPage, requests, ret>>
  /\ UNCHANGED notPagVars

\* lines 29-54: what paginate does with the page the fetch resolved with
FetchResolved ==
  /\ ppc = "await"
  /\ LET k == Served(pages, Len(requests))
         pageResults == PageResults(pages, k)
         more == endless \/ PageHasMore(pages, k)
         pushed == results \o pageResults
     IN /\ lastPage' = k
        /\ responseBase' = IF responseBase = 0 THEN k ELSE responseBase
        /\ IF PostFetchBudgetSpent(pageResults)
             THEN /\ truncated' = TRUE
                  /\ ppc' = "return"
                  /\ cutMidPage' = FALSE
                  /\ UNCHANGED <<results, hasMore, cursor>>
           ELSE IF Overshoots(pageResults)
             THEN /\ results' = results \o Slice(pageResults, Remaining)
                  /\ truncated' = TRUE
                  /\ cursor' = OrNull(PageNextCursor(pages, k))
                  /\ cutMidPage' = TRUE
                  /\ ppc' = "return"
                  /\ UNCHANGED hasMore
             ELSE /\ results' = pushed
                  /\ hasMore' = more
                  /\ cursor' = OrNull(PageNextCursor(pages, k))
                  /\ cutMidPage' = FALSE
                  /\ IF LimitMet(Len(pushed), more)
                       THEN truncated' = TRUE /\ ppc' = "return"
                       ELSE UNCHANGED truncated /\ ppc' = "loop"
  /\ UNCHANGED <<endless, rejection, thrown,
                 pages, hasLimit, limit, optPageSize, requests, ret>>

\* line 29: the awaited fetchPage call fulfils
FetchResolve ==
  /\ FetchResolved
  /\ UNCHANGED notPagVars

\* line 29: the awaited call rejects with err; nothing in paginate catches it
FetchRejected(err) ==
  /\ ppc = "await"
  /\ rejection' = err
  /\ thrown' = err
  /\ ppc' = "rejected"
  /\ UNCHANGED <<endless, pages, hasLimit, limit, optPageSize, results, cursor,
                 hasMore, truncated, responseBase, lastPage, cutMidPage,
                 requests, ret>>

FetchRejectReturnsPartial ==
  /\ ppc = "await"
  /\ \E err \in {ErrBadRequest, ErrBoth} : rejection' = err
  /\ ppc' = "return"
  /\ UNCHANGED <<endless, thrown, pages, hasLimit, limit, optPageSize, results,
                 cursor, hasMore, truncated, responseBase, lastPage, cutMidPage,
                 requests, ret>>
  /\ UNCHANGED notPagVars

FetchReject ==
  /\ \E err \in {ErrBadRequest, ErrBoth} : FetchRejected(err)
  /\ UNCHANGED notPagVars

\* lines 57-69: build the returned value
PaginateReturn ==
  /\ ppc = "return"
  /\ ret' = [results |-> results,
             has_more |-> FinalHasMore,
             next_cursor |-> FinalCursor,
             truncated |-> truncated,
             response |-> responseBase]
  /\ ppc' = "done"
  /\ UNCHANGED <<endless, rejection, thrown,
                 pages, hasLimit, limit, optPageSize, results, cursor, hasMore,
                 truncated, responseBase, lastPage, cutMidPage, requests>>
  /\ UNCHANGED notPagVars

\* the state of paginate's variables while another program runs
PaginateIdle ==
  /\ pages = <<>> /\ hasLimit = FALSE /\ limit = 0 /\ optPageSize = 0
  /\ results = <<>> /\ cursor = CursorUndefined /\ hasMore = TRUE
  /\ truncated = FALSE /\ responseBase = 0 /\ lastPage = 0
  /\ cutMidPage = FALSE /\ requests = <<>> /\ ret = NoRet
  /\ endless = FALSE /\ rejection = Ok /\ thrown = Ok /\ ppc = "idle"

NextPaginate ==
  \/ PaginateInvalidLimit
  \/ PaginateEnter
  \/ LoopLimitSatisfied
  \/ LoopFetch
  \/ LoopExit
  \/ FetchResolve
  \/ FetchReject
  \/ PaginateReturn

vars ==
  <<pagVars, retryVars, filterVars, compoundVars, propVars, cmdVars, mdVars, dynVars, wsVars>>

(***************************************************************************)
(* withRetry (lib/retry.js) and wrapNotionClient (lib/context.js)          *)
(***************************************************************************)
\* fn's behaviour: rate-limit failures, ended by a success or another failure,
\* or rate-limit failures for as long as it is called
FnScripts ==
  UNION {{s \o <<f>> : s \in [1..k -> RateLimitOutcomes], f \in FinalOutcomes} :
           k \in 0..(MaxAttemptsBound - 1)}
  \cup [1..MaxAttemptsBound -> RateLimitOutcomes]

\* what the n-th invocation of fn does; a script of rate-limit failures only
\* keeps failing the same way after its last entry
FnOutcome(script, n) == IF n <= Len(script) THEN script[n] ELSE script[Len(script)]

\* the values Math.random() returns, in tenths
RandomTenths == {0, 5, 9}

RECURSIVE Pow2(_)
Pow2(n) == IF n <= 0 THEN 1 ELSE 2 * Pow2(n - 1)

isRateLimitErrorAnyObject(err) == err.isObject

\* if (!err || typeof err !== 'object') return false;
\* return err.status === 429 || err.code === 'rate_limited';
isRateLimitError(err) ==
  IF ~err.isObject THEN FALSE
  ELSE err.status = RateLimitStatus \/ err.code = "rate_limited"

calculateDelayMsLinear(base, att, jit, randTenths) == base * att

\* baseDelayMs * 2 ** (attempt - 1), then delayMs * (0.5 + rand) floored when jitter
calculateDelayMs(base, att, jit, randTenths) ==
  LET delayMs == base * Pow2(att - 1)
  IN IF ~jit THEN delayMs
     ELSE LET jittered == (delayMs * (5 + randTenths)) \div 10
          IN IF jittered < 0 THEN 0 ELSE jittered

IsLastAttemptNever(att, max) == FALSE

IsLastAttemptOffByOne(att, max) == att >= max - 1

\* attempt === maxAttempts
IsLastAttempt(att, max) == att = max

\* return await fn(): the value of the n-th invocation
ResolvedValue(n) == [state |-> "resolved", value |-> n, err |-> Ok, call |-> n]

\* throw err: the error of the n-th invocation, as thrown
Rejected(err, n) == [state |-> "rejected", value |-> 0, err |-> err, call |-> n]

\* return undefined (line 67)
ResolvedUndefined == [state |-> "resolved", value |-> 0, err |-> Ok, call |-> 0]

Pending == [state |-> "pending", value |-> 0, err |-> Ok, call |-> 0]

RetryIdle ==
  /\ viaClient = FALSE /\ fnScript = <<>> /\ maxAttempts = 0 /\ baseDelayMs = 0
  /\ jitter = FALSE /\ hasOnRetry = FALSE /\ attempt = 0 /\ calls = 0
  /\ sleeps = <<>> /\ onRetryCalls = <<>> /\ log = <<>>
  /\ retryResult = Pending /\ rpc = "idle"

\* an absent option is <<>>, a supplied one <<v>>
OptionOr(opt, default) == IF opt = <<>> THEN default ELSE opt[1]

\* lines 39-49: destructure the options and enter the loop
EnterWithRetry(optMaxAttempts, optBaseDelayMs, optJitter, onRetryGiven) ==
  /\ maxAttempts' = OptionOr(optMaxAttempts, DefaultMaxAttempts)
  /\ baseDelayMs' = OptionOr(optBaseDelayMs, DefaultBaseDelayMs)
  /\ jitter' = OptionOr(optJitter, TRUE)
  /\ hasOnRetry' = onRetryGiven
  /\ attempt' = 1
  /\ rpc' = "loop"
  /\ UNCHANGED <<calls, sleeps, onRetryCalls, log, retryResult>>

\* a direct call withRetry(fn, options)
WithRetryCall ==
  /\ rpc = "idle"
  /\ \E script \in FnScripts,
        optMax \in {<<>>} \cup {<<m>> : m \in -1..MaxAttemptsBound},
        optBase \in {<<>>, <<10>>},
        optJitter \in {<<>>, <<FALSE>>},
        onRetryGiven \in BOOLEAN :
       /\ fnScript' = script
       /\ viaClient' = FALSE
       /\ EnterWithRetry(optMax, optBase, optJitter, onRetryGiven)
  /\ UNCHANGED notRetryVars

\* context.js 32-46: a method of the proxied client,
\* (...args) => withRetry(() => value.apply(obj, args))
ClientMethodCall ==
  /\ rpc = "idle"
  /\ \E script \in FnScripts :
       /\ fnScript' = script
       /\ viaClient' = TRUE
       /\ EnterWithRetry(<<>>, <<>>, <<>>, FALSE)
  /\ UNCHANGED notRetryVars

\* lines 49-51: attempt <= maxAttempts and fn() fulfils
AttemptSucceeds ==
  /\ rpc = "loop"
  /\ attempt <= maxAttempts
  /\ FnOutcome(fnScript, calls + 1).kind = "ok"
  /\ calls' = calls + 1
  /\ log' = Append(log, "call")
  /\ retryResult' = ResolvedValue(calls + 1)
  /\ rpc' = "done"
  /\ UNCHANGED <<viaClient, fnScript, maxAttempts, baseDelayMs, jitter, hasOnRetry,
                 attempt, sleeps, onRetryCalls>>
  /\ UNCHANGED notRetryVars

\* lines 52-55: fn() rejects and the error is rethrown
AttemptFailsRethrow ==
  /\ rpc = "loop"
  /\ attempt <= maxAttempts
  /\ LET err == FnOutcome(fnScript, calls + 1)
     IN /\ err.kind = "err"
        /\ ~isRateLimitError(err) \/ IsLastAttempt(attempt, maxAttempts)
        /\ retryResult' = Rejected(err, calls + 1)
  /\ calls' = calls + 1
  /\ log' = Append(log, "call")
  /\ rpc' = "done"
  /\ UNCHANGED <<viaClient, fnScript, maxAttempts, baseDelayMs, jitter, hasOnRetry,
                 attempt, sleeps, onRetryCalls>>
  /\ UNCHANGED notRetryVars

\* lines 52-63: fn() rejects with a rate-limit error before the last attempt:
\* compute the delay, notify, start sleeping
AttemptFailsRetry ==
  /\ rpc = "loop"
  /\ attempt <= maxAttempts
  /\ LET err == FnOutcome(fnScript, calls + 1)
     IN /\ err.kind = "err"
        /\ ~(~isRateLimitError(err) \/ IsLastAttempt(attempt, maxAttempts))
        /\ \E r \in (IF jitter THEN RandomTenths ELSE {0}) :
             LET delayMs == calculateDelayMs(baseDelayMs, attempt, jitter, r)
             IN /\ sleeps' = Append(sleeps, delayMs)
                /\ IF hasOnRetry
                     THEN /\ onRetryCalls' =
                               Append(onRetryCalls,
                                      [attempt |-> attempt, maxAttempts |-> maxAttempts,
                                       delayMs |-> delayMs, error |-> calls + 1])
                          /\ log' = log \o <<"call", "onRetry", "sleep">>
                     ELSE /\ UNCHANGED onRetryCalls
                          /\ log' = log \o <<"call", "console.error", "sleep">>
  /\ calls' = calls + 1
  /\ rpc' = "sleeping"
  /\ UNCHANGED <<viaClient, fnScript, maxAttempts, baseDelayMs, jitter, hasOnRetry,
                 attempt, retryResult>>
  /\ UNCHANGED notRetryVars

\* line 63 resolves, line 49: attempt += 1
SleepDone ==
  /\ rpc = "sleeping"
  /\ attempt' = attempt + 1
  /\ rpc' = "loop"
  /\ UNCHANGED <<viaClient, fnScript, maxAttempts, baseDelayMs, jitter, hasOnRetry,
                 calls, sleeps, onRetryCalls, log, retryResult>>
  /\ UNCHANGED notRetryVars

\* lines 49, 67: the loop condition fails, return undefined
LoopFallsThrough ==
  /\ rpc = "loop"
  /\ ~(attempt <= maxAttempts)
  /\ retryResult' = ResolvedUndefined
  /\ rpc' = "done"
  /\ UNCHANGED <<viaClient, fnScript, maxAttempts, baseDelayMs, jitter, hasOnRetry,
                 attempt, calls, sleeps, onRetryCalls, log>>
  /\ UNCHANGED notRetryVars

NextRetry ==
  \/ WithRetryCall
  \/ ClientMethodCall
  \/ AttemptSucceeds
  \/ AttemptFailsRethrow
  \/ AttemptFailsRetry
  \/ SleepDone
  \/ LoopFallsThrough

(***************************************************************************)
(* The query command (commands/query.js): paginate over the retry-wrapped  *)
(* client, fetchPage = args => notion.dataSources.query({...params, ...})  *)
(***************************************************************************)
\* what one dataSources.query call does on its 1st, 2nd, ... invocation
QueryScripts ==
  {<<Ok>>, <<ErrStatusOnly, Ok>>, <<ErrCodeOnly, ErrBoth, Ok>>,
   <<ErrBoth, ErrBoth, ErrStatusOnly>>, <<ErrStatusOnly, ErrBadRequest>>}

\* query.js 25-29, 48-51: --limit absent or a non-negative integer
QueryInputs ==
  /\ pages \in UNION {[1..k -> PageChoice] : k \in 1..MaxQueryPages}
  /\ endless = FALSE
  /\ hasLimit \in BOOLEAN
  /\ limit \in (IF hasLimit THEN 0..MaxLimit ELSE {0})
  /\ optPageSize = QueryPageSizeLimit
  /\ PaginateLocals

\* query.js 49 through context.js 32-46: the awaited fetchPage call is a
\* method of the proxied client, so it runs inside withRetry with the defaults
QueryClientCall ==
  /\ ppc = "await"
  /\ rpc = "idle"
  /\ \E script \in QueryScripts :
       /\ fnScript' = script
       /\ viaClient' = TRUE
       /\ EnterWithRetry(<<>>, <<>>, <<>>, FALSE)
  /\ UNCHANGED notRetryVars

\* the withRetry call is over; the next client call starts a new one
RetryCallOver ==
  /\ viaClient' = FALSE /\ fnScript' = <<>> /\ maxAttempts' = 0
  /\ baseDelayMs' = 0 /\ jitter' = FALSE /\ hasOnRetry' = FALSE
  /\ attempt' = 0 /\ calls' = 0 /\ sleeps' = <<>> /\ onRetryCalls' = <<>>
  /\ log' = <<>> /\ retryResult' = Pending /\ rpc' = "idle"

\* paginate.js 29: the promise of withRetry fulfils with the page
QueryFetchResolve ==
  /\ rpc = "done" /\ retryResult.state = "resolved"
  /\ FetchResolved
  /\ RetryCallOver
  /\ UNCHANGED <<filterVars, compoundVars, propVars, cmdVars, mdVars, dynVars, wsVars>>

QueryFetchRejectRestarts ==
  /\ rpc = "done" /\ retryResult.state = "rejected"
  /\ ppc = "await"
  /\ cursor' = CursorUndefined
  /\ ppc' = "loop"
  /\ RetryCallOver
  /\ UNCHANGED <<endless, rejection, thrown, pages, hasLimit, limit, optPageSize,
                 results, hasMore, truncated, responseBase, lastPage, cutMidPage,
                 requests, ret>>
  /\ UNCHANGED <<filterVars, compoundVars, propVars, cmdVars, mdVars, dynVars, wsVars>>

\* paginate.js 29: the promise of withRetry rejects with the error it rethrew
QueryFetchReject ==
  /\ rpc = "done" /\ retryResult.state = "rejected"
  /\ FetchRejected(retryResult.err)
  /\ UNCHANGED notPagVars

NextQuery ==
  \/ PaginateEnter
  \/ LoopLimitSatisfied
  \/ LoopFetch
  \/ LoopExit
  \/ QueryClientCall
  \/ AttemptSucceeds
  \/ AttemptFailsRethrow
  \/ AttemptFailsRetry
  \/ SleepDone
  \/ QueryFetchResolve
  \/ QueryFetchReject
  \/ PaginateReturn

(***************************************************************************)
(* Filters (lib/helpers.js)                                                *)
(* Strings are sequences of one-character strings.                         *)
(***************************************************************************)
UpperLetters == <<"A", "B", "C", "D", "E", "F", "G", "H", "I", "J", "K", "L", "M",
                  "N", "O", "P", "Q", "R", "S", "T", "U", "V", "W", "X", "Y", "Z">>
LowerLetters == <<"a", "b", "c", "d", "e", "f", "g", "h", "i", "j", "k", "l", "m",
                  "n", "o", "p", "q", "r", "s", "t", "u", "v", "w", "x", "y", "z">>
DigitChars == <<"0", "1", "2", "3", "4", "5", "6", "7", "8", "9">>

\* String.prototype.toLowerCase
toLowerCase(str) ==
  [i \in 1..Len(str) |->
     IF \E j \in 1..Len(UpperLetters) : UpperLetters[j] = str[i]
       THEN LowerLetters[CHOOSE j \in 1..Len(UpperLetters) : UpperLetters[j] = str[i]]
       ELSE str[i]]

\* String.prototype.indexOf: 0-based index of the first occurrence, -1 if none
indexOf(str, op) ==
  LET hits == {i \in 0..(Len(str) - Len(op)) : SubSeq(str, i + 1, i + Len(op)) = op}
  IN IF hits = {} THEN -1 ELSE CHOOSE i \in hits : \A j \in hits : i <= j

\* String.prototype.slice(from) and slice(0, to)
sliceFrom(str, from) == SubSeq(str, from + 1, Len(str))
sliceTo(str, to) == SubSeq(str, 1, to)

OpGe == <<">", "=">>
OpLe == <<"<", "=">>
OpNe == <<"!", "=">>
OpGt == <<">">>
OpLt == <<"<">>
OpEq == <<"=">>

\* const ops = ['>=', '<=', '!=', '>', '<', '=']
ops == <<OpGe, OpLe, OpNe, OpGt, OpLt, OpEq>>

ParseError == [error |-> TRUE, key |-> <<>>, operator |-> <<>>, value |-> <<>>]

\* for (const op of ops) { const idx = filterStr.indexOf(op); if (idx > 0) return ... }
parseFilterOperator(str) ==
  LET found == {i \in 1..Len(ops) : indexOf(str, ops[i]) > 0}
      first == CHOOSE i \in found : \A j \in found : i <= j
      op == ops[first]
      idx == indexOf(str, op)
  IN IF found = {} THEN ParseError
     ELSE [error |-> FALSE,
           key |-> sliceTo(str, idx),
           operator |-> op,
           value |-> sliceFrom(str, idx + Len(op))]

\* values after coercion: a string, a number (or NaN), a boolean, or undefined
StrVal(s) == [tag |-> "string", s |-> s, n |-> 0, b |-> FALSE]
NumVal(n) == [tag |-> "number", s |-> <<>>, n |-> n, b |-> FALSE]
NaNVal == [tag |-> "NaN", s |-> <<>>, n |-> 0, b |-> FALSE]
BoolVal(b) == [tag |-> "boolean", s |-> <<>>, n |-> 0, b |-> b]
\* a calendar date, as the number of days after the current local date
DayVal(d) == [tag |-> "date", s |-> <<>>, n |-> d, b |-> FALSE]
Undefined == [tag |-> "undefined", s |-> <<>>, n |-> 0, b |-> FALSE]

DigitOf(c) == (CHOOSE j \in 1..Len(DigitChars) : DigitChars[j] = c) - 1

RECURSIVE DecimalOf(_)
DecimalOf(str) ==
  IF str = <<>> THEN 0
  ELSE 10 * DecimalOf(SubSeq(str, 1, Len(str) - 1)) + DigitOf(str[Len(str)])

\* Number(value) on the strings of the model: '' is 0, a run of digits its value,
\* anything else NaN
NumberOf(str) ==
  IF \A i \in 1..Len(str) : \E j \in 1..Len(DigitChars) : DigitChars[j] = str[i]
    THEN NumVal(DecimalOf(str))
    ELSE NaNVal

KwToday == <<"t", "o", "d", "a", "y">>
KwYesterday == <<"y", "e", "s", "t", "e", "r", "d", "a", "y">>
KwTomorrow == <<"t", "o", "m", "o", "r", "r", "o", "w">>
KwLastWeek == <<"l", "a", "s", "t", "_", "w", "e", "e", "k">>
KwLastWeekDash == <<"l", "a", "s", "t", "-", "w", "e", "e", "k">>
KwNextWeek == <<"n", "e", "x", "t", "_", "w", "e", "e", "k">>
KwNextWeekDash == <<"n", "e", "x", "t", "-", "w", "e", "e", "k">>

\* new Date(y, m, d +- k).toISOString().split('T')[0]: the UTC calendar date of
\* local midnight, which east of Greenwich is the day before the local date
isoDateOfLocalMidnight(dayOffset, east) ==
  DayVal(IF east THEN dayOffset - 1 ELSE dayOffset)

resolveRelativeDate(value, east) ==
  LET lower == toLowerCase(value)
  IN CASE lower = KwToday -> isoDateOfLocalMidnight(0, east)
       [] lower = KwYesterday -> isoDateOfLocalMidnight(-1, east)
       [] lower = KwTomorrow -> isoDateOfLocalMidnight(1, east)
       [] lower \in {KwLastWeek, KwLastWeekDash} -> isoDateOfLocalMidnight(-7, east)
       [] lower \in {KwNextWeek, KwNextWeekDash} -> isoDateOfLocalMidnight(7, east)
       [] OTHER -> StrVal(value)

\* function getFilterType(type) { return type; }
getFilterType(type) == type

Cond(ftype, inner) == [ftype |-> ftype, inner |-> inner]
Null == [ftype |-> "null", inner |-> {}]

getDefaultCondition(type, value) ==
  CASE type \in {"title", "rich_text"} -> Cond(type, {<<"contains", value>>})
    [] type = "select" -> Cond("select", {<<"equals", value>>})
    [] type = "multi_select" -> Cond("multi_select", {<<"contains", value>>})
    [] type = "number" -> Cond("number", {<<"equals", value>>})
    [] type = "checkbox" -> Cond("checkbox", {<<"equals", value>>})
    [] type = "date" -> Cond("date", {<<"equals", value>>})
    [] type = "status" -> Cond("status", {<<"equals", value>>})
    [] OTHER -> Cond(type, {<<"equals", value>>})

getNotEqualCondition(type, value) ==
  CASE type \in {"title", "rich_text"} -> Cond(type, {<<"does_not_contain", value>>})
    [] type = "select" -> Cond("select", {<<"does_not_equal", value>>})
    [] type = "multi_select" -> Cond("multi_select", {<<"does_not_contain", value>>})
    [] type = "number" -> Cond("number", {<<"does_not_equal", value>>})
    [] type = "checkbox" -> Cond("checkbox", {<<"does_not_equal", value>>})
    [] type = "date" -> Cond("date", {<<"does_not_equal", value>>})
    [] type = "status" -> Cond("status", {<<"does_not_equal", value>>})
    [] OTHER -> Cond(type, {<<"does_not_equal", value>>})

\* the comparison entry of conditionMap: { [type]: { dateKey: type === 'date' ? value
\* : undefined, otherKey: type !== 'date' ? value : undefined } }
comparisonCondition(type, value, dateKey, otherKey) ==
  Cond(getFilterType(type),
       {<<dateKey, IF type = "date" THEN value ELSE Undefined>>,
        <<otherKey, IF type # "date" THEN value ELSE Undefined>>})

\* the value after the coercions at the head of operatorToCondition
coerceValue(type, value, east) ==
  CASE type = "date" -> resolveRelativeDate(value, east)
    [] type = "number" -> NumberOf(value)
    [] type = "checkbox" ->
         BoolVal(value \in {<<"t", "r", "u", "e">>, <<"1">>, <<"y", "e", "s">>})
    [] OTHER -> StrVal(value)

cleanUndefinedKeepsAll(cond) == cond

\* for (const k of Object.keys(inner)) if (inner[k] === undefined) delete inner[k]
cleanUndefined(cond) ==
  Cond(cond.ftype, {kv \in cond.inner : kv[2] # Undefined})

operatorToCondition(type, operator, value, east) ==
  LET v == coerceValue(type, value, east)
      condition ==
        CASE operator = OpEq -> getDefaultCondition(type, v)
          [] operator = OpNe -> getNotEqualCondition(type, v)
          [] operator = OpGt -> comparisonCondition(type, v, "after", "greater_than")
          [] operator = OpLt -> comparisonCondition(type, v, "before", "less_than")
          [] operator = OpGe ->
               comparisonCondition(type, v, "on_or_after", "greater_than_or_equal_to")
          [] operator = OpLe ->
               comparisonCondition(type, v, "on_or_before", "less_than_or_equal_to")
          [] OTHER -> Null
  IN IF condition = Null THEN Null ELSE cleanUndefined(condition)

\* the database schema the filters are built against: lowercased name -> entry
SchemaEntry(name, type) == [name |-> name, type |-> type]

NameProp == <<"N", "a", "m", "e">>
DescriptionProp == <<"D", "e", "s", "c", "r", "i", "p", "t", "i", "o", "n">>

SchemaEntries ==
  {SchemaEntry(NameProp, "title"),
   SchemaEntry(DescriptionProp, "rich_text"),
   SchemaEntry(<<"S">>, "select"),
   SchemaEntry(<<"M">>, "multi_select"),
   SchemaEntry(<<"C">>, "checkbox"),
   SchemaEntry(<<"U">>, "status"),
   SchemaEntry(<<"a">>, "number"),
   SchemaEntry(<<"D">>, "date"),
   SchemaEntry(<<"L">>, "url")}

\* schema[key]: the entry stored under a lowercased key, if any
SchemaHas(key) == \E e \in SchemaEntries : toLowerCase(e.name) = key
SchemaGet(key) == CHOOSE e \in SchemaEntries : toLowerCase(e.name) = key

NoError == [msg |-> "none", key |-> <<>>, operator |-> <<>>, type |-> "none"]
NoFilter == [property |-> <<>>, condition |-> Null]

FilterOk(property, condition) ==
  [kind |-> "filter", error |-> NoError,
   filter |-> [property |-> property, condition |-> condition]]
FilterError(msg, key, operator, type) ==
  [kind |-> "error",
   error |-> [msg |-> msg, key |-> key, operator |-> operator, type |-> type],
   filter |-> NoFilter]

buildFilterFromSchema(str, east) ==
  LET p == parseFilterOperator(str)
  IN IF p.error THEN FilterError("Invalid filter format", <<>>, <<>>, "none")
     ELSE IF ~SchemaHas(toLowerCase(p.key))
       THEN FilterError("not found in database schema", p.key, <<>>, "none")
     ELSE LET schemaEntry == SchemaGet(toLowerCase(p.key))
              condition == operatorToCondition(schemaEntry.type, p.operator,
                                               p.value, east)
          IN IF condition = Null
               THEN FilterError("Operator not supported for type", <<>>,
                                p.operator, schemaEntry.type)
               ELSE FilterOk(schemaEntry.name, condition)

\* ---- inputs ----
FilterChars == {"a", "=", ">", "<", "!"}

GenericStrings == UNION {[1..k -> FilterChars] : k \in 0..MaxStrLen}

FilterValues == {<<>>, <<"5">>, <<"x">>, <<"t", "r", "u", "e">>, KwToday}

SchemaFilters ==
  {k \o ops[i] \o v :
     k \in {e.name : e \in SchemaEntries} \cup {toLowerCase(e.name) : e \in SchemaEntries}
           \cup {<<"z">>},
     i \in 1..Len(ops), v \in FilterValues}

\* README: --filter "Description=score>=90"; unit test: 'Name=a=b=c'
ReadmeDescriptionScore == DescriptionProp \o <<"=", "s", "c", "o", "r", "e", ">", "=", "9", "0">>
TestNameABC == NameProp \o <<"=", "a", "=", "b", "=", "c">>

\* date keywords as a user may type them
KwTodayCapitalised == <<"T", "o", "d", "a", "y">>
KwTomorrowUpper == <<"T", "O", "M", "O", "R", "R", "O", "W">>
KwLastWeekMixed == <<"L", "a", "s", "t", "_", "W", "e", "e", "k">>
KwNextWeekDashUpper == <<"N", "E", "X", "T", "-", "W", "E", "E", "K">>
AbsoluteDate == <<"2", "0", "2", "4", "-", "0", "6", "-", "1", "5">>

DateInputs ==
  {KwToday, KwYesterday, KwTomorrow, KwLastWeek, KwLastWeekDash, KwNextWeek,
   KwNextWeekDash, KwTodayCapitalised, KwTomorrowUpper, KwLastWeekMixed,
   KwNextWeekDashUpper, AbsoluteDate}

FilterInputs ==
  GenericStrings \cup SchemaFilters \cup {ReadmeDescriptionScore, TestNameABC}
  \cup DateInputs

NotParsed == [error |-> FALSE, key |-> <<>>, operator |-> <<>>, value |-> <<>>]
NotBuilt == [kind |-> "none", error |-> NoError, filter |-> NoFilter]

FilterIdle ==
  /\ filterStr = <<>> /\ tzEast = FALSE /\ parsed = NotParsed
  /\ filterResult = NotBuilt /\ resolved = Undefined /\ fpc = "idle"

FilterInputsState ==
  /\ filterStr \in FilterInputs
  /\ tzEast \in BOOLEAN
  /\ parsed = NotParsed
  /\ filterResult = NotBuilt
  /\ resolved = Undefined
  /\ fpc = "input"

\* parseFilterOperator(filterStr)
CallParseFilterOperator ==
  /\ fpc = "input"
  /\ parsed' = parseFilterOperator(filterStr)
  /\ fpc' = "parsed"
  /\ UNCHANGED <<filterStr, tzEast, filterResult, resolved>>
  /\ UNCHANGED notFilterVars

\* buildFilterFromSchema(schema, filterStr)
CallBuildFilterFromSchema ==
  /\ fpc = "input"
  /\ parsed' = parseFilterOperator(filterStr)
  /\ filterResult' = buildFilterFromSchema(filterStr, tzEast)
  /\ fpc' = "built"
  /\ UNCHANGED <<filterStr, tzEast, resolved>>
  /\ UNCHANGED notFilterVars

\* resolveRelativeDate(filterStr)
CallResolveRelativeDate ==
  /\ fpc = "input"
  /\ resolved' = resolveRelativeDate(filterStr, tzEast)
  /\ fpc' = "resolved"
  /\ UNCHANGED <<filterStr, tzEast, parsed, filterResult>>
  /\ UNCHANGED notFilterVars

NextFilter ==
  \/ CallParseFilterOperator
  \/ CallBuildFilterFromSchema
  \/ CallResolveRelativeDate

(***************************************************************************)
(* buildCompoundFilter (lib/helpers.js)                                    *)
(***************************************************************************)
MaxFilters == 3

\* a condition, an 'and' container, or an error, as one record shape
Single(r) == [kind |-> r.kind, error |-> r.error, filter |-> r.filter, and |-> <<>>]
AndOf(fs) == [kind |-> "and", error |-> NoError, filter |-> NoFilter, and |-> fs]
NoCompound == [kind |-> "none", error |-> NoError, filter |-> NoFilter, and |-> <<>>]

\* filters.push(result.filter)
pushFront(fs, f) == <<f>> \o fs
push(fs, f) == Append(fs, f)

CompoundStrs ==
  {<<"a", "=", "5">>, <<"a", ">", "=", "5">>, <<"S", "=", "x">>,
   <<"z", "=", "5">>, <<"a", "a", "a">>}

CompoundInputs ==
  /\ filterStrs \in UNION {[1..n -> CompoundStrs] : n \in 0..MaxFilters}
  /\ filters = <<>> /\ fIdx = 0
  /\ compoundResult = NoCompound
  /\ cpc = "start"

CompoundIdle ==
  /\ filterStrs = <<>> /\ filters = <<>> /\ fIdx = 0
  /\ compoundResult = NoCompound /\ cpc = "idle"

\* filterStrs.length === 0
CompoundEmpty ==
  /\ cpc = "start"
  /\ Len(filterStrs) = 0
  /\ compoundResult' = Single(FilterError("No filters provided", <<>>, <<>>, "none"))
  /\ cpc' = "done"
  /\ UNCHANGED <<filterStrs, filters, fIdx>>
  /\ UNCHANGED notCompoundVars

\* filterStrs.length === 1
CompoundSingle ==
  /\ cpc = "start"
  /\ Len(filterStrs) = 1
  /\ compoundResult' = Single(buildFilterFromSchema(filterStrs[1], tzEast))
  /\ cpc' = "done"
  /\ UNCHANGED <<filterStrs, filters, fIdx>>
  /\ UNCHANGED notCompoundVars

\* const filters = []; for (const f of filterStrs)
CompoundEnterLoop ==
  /\ cpc = "start"
  /\ Len(filterStrs) > 1
  /\ filters' = <<>>
  /\ fIdx' = 1
  /\ cpc' = "loop"
  /\ UNCHANGED <<filterStrs, compoundResult>>
  /\ UNCHANGED notCompoundVars

\* if (result.error) return result
CompoundLoopError ==
  /\ cpc = "loop"
  /\ fIdx <= Len(filterStrs)
  /\ LET result == buildFilterFromSchema(filterStrs[fIdx], tzEast)
     IN /\ result.kind = "error"
        /\ compoundResult' = Single(result)
  /\ cpc' = "done"
  /\ UNCHANGED <<filterStrs, filters, fIdx>>
  /\ UNCHANGED notCompoundVars

\* filters.push(result.filter)
CompoundLoopPush ==
  /\ cpc = "loop"
  /\ fIdx <= Len(filterStrs)
  /\ LET result == buildFilterFromSchema(filterStrs[fIdx], tzEast)
     IN /\ result.kind # "error"
        /\ filters' = push(filters, result.filter)
  /\ fIdx' = fIdx + 1
  /\ UNCHANGED <<filterStrs, compoundResult, cpc>>
  /\ UNCHANGED notCompoundVars

\* return { filter: { and: filters } }
CompoundLoopExit ==
  /\ cpc = "loop"
  /\ fIdx > Len(filterStrs)
  /\ compoundResult' = AndOf(filters)
  /\ cpc' = "done"
  /\ UNCHANGED <<filterStrs, filters, fIdx>>
  /\ UNCHANGED notCompoundVars

NextCompound ==
  \/ CompoundEmpty
  \/ CompoundSingle
  \/ CompoundEnterLoop
  \/ CompoundLoopError
  \/ CompoundLoopPush
  \/ CompoundLoopExit

(***************************************************************************)
(* buildPropValue and isValidIsoDate (lib/format.js)                       *)
(***************************************************************************)
IsDigit(c) == \E j \in 1..Len(DigitChars) : DigitChars[j] = c
AllDigits(str, from, to) == \A i \in from..to : IsDigit(str[i])

\* String.prototype.split(sep)
RECURSIVE split(_, _)
split(str, sep) ==
  LET i == indexOf(str, sep)
  IN IF i = -1 THEN <<str>>
     ELSE <<sliceTo(str, i)>> \o split(sliceFrom(str, i + Len(sep)), sep)

\* String.prototype.trim
RECURSIVE trimStart(_)
trimStart(str) ==
  IF str # <<>> /\ str[1] = " " THEN trimStart(Tail(str)) ELSE str
RECURSIVE trimEnd(_)
trimEnd(str) ==
  IF str # <<>> /\ str[Len(str)] = " " THEN trimEnd(SubSeq(str, 1, Len(str) - 1))
  ELSE str
trim(str) == trimEnd(trimStart(str))

startsWith(str, prefix) ==
  Len(str) >= Len(prefix) /\ SubSeq(str, 1, Len(prefix)) = prefix
includes(str, part) == indexOf(str, part) # -1

\* /^\d{4}-\d{2}-\d{2}$/
ISO_DATE_ONLY_REGEX(v) ==
  /\ Len(v) = 10
  /\ AllDigits(v, 1, 4) /\ v[5] = "-" /\ AllDigits(v, 6, 7)
  /\ v[8] = "-" /\ AllDigits(v, 9, 10)

\* (?:Z|[+-]\d{2}:\d{2})$
ZoneRegex(z) ==
  \/ z = <<"Z">>
  \/ /\ Len(z) = 6 /\ z[1] \in {"+", "-"}
     /\ AllDigits(z, 2, 3) /\ z[4] = ":" /\ AllDigits(z, 5, 6)

\* /^\d{4}-\d{2}-\d{2}T\d{2}:\d{2}:\d{2}(?:\.\d+)?(?:Z|[+-]\d{2}:\d{2})$/
ISO_DATE_TIME_REGEX(v) ==
  /\ Len(v) >= 20
  /\ ISO_DATE_ONLY_REGEX(SubSeq(v, 1, 10))
  /\ v[11] = "T"
  /\ AllDigits(v, 12, 13) /\ v[14] = ":" /\ AllDigits(v, 15, 16)
  /\ v[17] = ":" /\ AllDigits(v, 18, 19)
  /\ LET rest == SubSeq(v, 20, Len(v))
     IN \E k \in 0..Len(rest) :
          /\ k = 0 \/ (k >= 2 /\ rest[1] = "." /\ AllDigits(rest, 2, k))
          /\ ZoneRegex(SubSeq(rest, k + 1, Len(rest)))

IsLeapYear(y) == y % 4 = 0 /\ (y % 100 # 0 \/ y % 400 = 0)
DaysInMonth(y, m) ==
  CASE m = 2 -> IF IsLeapYear(y) THEN 29 ELSE 28
    [] m \in {4, 6, 9, 11} -> 30
    [] OTHER -> 31

YearOf(v) == DecimalOf(SubSeq(v, 1, 4))
MonthOf(v) == DecimalOf(SubSeq(v, 6, 7))
DayOf(v) == DecimalOf(SubSeq(v, 9, 10))
HourOf(v) == DecimalOf(SubSeq(v, 12, 13))
MinuteOf(v) == DecimalOf(SubSeq(v, 15, 16))
SecondOf(v) == DecimalOf(SubSeq(v, 18, 19))

\* new Date(value) on a string of either ISO shape: the engine rejects a month
\* outside 1..12, a day outside 1..31 and a time outside 00:00:00..23:59:59,
\* and carries a day past the end of the month over into the next month
InvalidDate == [nan |-> TRUE, year |-> 0, month |-> 0, day |-> 0]
newDate(v) ==
  LET y == YearOf(v)
      m == MonthOf(v)
      d == DayOf(v)
      timeOk == Len(v) = 10 \/
                (HourOf(v) <= 23 /\ MinuteOf(v) <= 59 /\ SecondOf(v) <= 59)
  IN IF m \notin 1..12 \/ d \notin 1..31 \/ ~timeOk THEN InvalidDate
     ELSE IF d > DaysInMonth(y, m)
       THEN [nan |-> FALSE, year |-> y, month |-> m + 1, day |-> d - DaysInMonth(y, m)]
       ELSE [nan |-> FALSE, year |-> y, month |-> m, day |-> d]

isValidIsoDate(value) ==
  IF ISO_DATE_ONLY_REGEX(value)
    THEN LET date == newDate(value)
         IN IF date.nan THEN FALSE
            ELSE /\ date.year = YearOf(value)
                 /\ date.month = MonthOf(value)
                 /\ date.day = DayOf(value)
  ELSE IF ISO_DATE_TIME_REGEX(value) THEN ~newDate(value).nan
  ELSE FALSE

\* the object buildPropValue returns: its single key, and under it a scalar or
\* (multi_select) a list of names
PropResult(key, val, names) == [key |-> key, val |-> val, names |-> names]
PropError(msg) == PropResult("error", StrVal(msg), <<>>)
NotBuiltProp == PropResult("none", Undefined, <<>>)

MsgInvalidNumber == <<"n", "u", "m", "b", "e", "r">>
MsgInvalidDate == <<"d", "a", "t", "e">>
MsgInvalidUrl == <<"U", "R", "L">>
MsgInvalidEmail == <<"e", "m", "a", "i", "l">>

buildPropValue(type, value) ==
  CASE type = "number" ->
         LET num == NumberOf(value)
         IN IF num.tag = "NaN" THEN PropError(MsgInvalidNumber)
            ELSE PropResult("number", num, <<>>)
    [] type = "multi_select" ->
         LET parts == split(value, <<",">>)
         IN PropResult("multi_select", Undefined,
                       [i \in 1..Len(parts) |-> trim(parts[i])])
    [] type = "date" ->
         IF ~isValidIsoDate(value) THEN PropError(MsgInvalidDate)
         ELSE PropResult("date", StrVal(value), <<>>)
    [] type = "checkbox" ->
         PropResult("checkbox",
                    BoolVal(value \in {<<"t", "r", "u", "e">>, <<"1">>, <<"y", "e", "s">>}),
                    <<>>)
    [] type = "url" ->
         IF ~startsWith(value, <<"h", "t", "t", "p", ":", "/", "/">>)
            /\ ~startsWith(value, <<"h", "t", "t", "p", "s", ":", "/", "/">>)
           THEN PropError(MsgInvalidUrl)
           ELSE PropResult("url", StrVal(value), <<>>)
    [] type = "email" ->
         IF ~includes(value, <<"@">>) THEN PropError(MsgInvalidEmail)
         ELSE PropResult("email", StrVal(value), <<>>)
    [] OTHER -> PropResult(type, StrVal(value), <<>>)

\* ---- inputs ----
PropTypes ==
  {"title", "rich_text", "number", "select", "multi_select", "date", "checkbox",
   "url", "email", "phone_number", "status", "people"}

VEmpty == <<>>
VN42 == <<"4", "2">>
VAbc == <<"a", "b", "c">>
VA == <<"a">>
VATrailingComma == <<"a", ",">>
VALeadingComma == <<",", "a">>
VADoubledCommaB == <<"a", ",", ",", "b">>
VACommaSpaceB == <<"a", ",", " ", "b">>
VAPadded == <<" ", "a", " ">>
VTrue == <<"t", "r", "u", "e">>
VYes == <<"y", "e", "s">>
VJan15 == <<"2", "0", "2", "4", "-", "0", "1", "-", "1", "5">>
VFeb29Leap == <<"2", "0", "2", "4", "-", "0", "2", "-", "2", "9">>
VFeb29NonLeap == <<"2", "0", "2", "3", "-", "0", "2", "-", "2", "9">>
VFeb30 == <<"2", "0", "2", "4", "-", "0", "2", "-", "3", "0">>
VMonth13Day40 == <<"2", "0", "2", "4", "-", "1", "3", "-", "4", "0">>
VApr31 == <<"2", "0", "2", "4", "-", "0", "4", "-", "3", "1">>
VShortFields == <<"2", "0", "2", "4", "-", "1", "-", "5">>
VTomorrow == <<"t", "o", "m", "o", "r", "r", "o", "w">>
VJan15TimeZ == <<"2", "0", "2", "4", "-", "0", "1", "-", "1", "5", "T", "1", "0", ":", "3", "0", ":", "0", "0", "Z">>
VJan15TimeFractionOffset == <<"2", "0", "2", "4", "-", "0", "1", "-", "1", "5", "T", "1", "0", ":", "3", "0", ":", "0", "0", ".", "1", "2", "3", "+", "0", "2", ":", "0", "0">>
VJan15TimeNoZone == <<"2", "0", "2", "4", "-", "0", "1", "-", "1", "5", "T", "1", "0", ":", "3", "0", ":", "0", "0">>
VFeb30TimeZ == <<"2", "0", "2", "4", "-", "0", "2", "-", "3", "0", "T", "1", "0", ":", "3", "0", ":", "0", "0", "Z">>
VJan15Hour25Z == <<"2", "0", "2", "4", "-", "0", "1", "-", "1", "5", "T", "2", "5", ":", "0", "0", ":", "0", "0", "Z">>
VHttpX == <<"h", "t", "t", "p", ":", "/", "/", "x">>
VHttpsX == <<"h", "t", "t", "p", "s", ":", "/", "/", "x">>
VFtpX == <<"f", "t", "p", ":", "/", "/", "x">>
VAAtB == <<"a", "@", "b">>
VNoAtSign == <<"n", "o", "-", "a", "t", "-", "s", "i", "g", "n">>

PropValues ==
  {VEmpty, VN42, VAbc, VA, VATrailingComma,
   VALeadingComma, VADoubledCommaB, VACommaSpaceB, VAPadded, VTrue,
   VYes, VJan15, VFeb29Leap, VFeb29NonLeap, VFeb30,
   VMonth13Day40, VApr31, VShortFields, VTomorrow, VJan15TimeZ,
   VJan15TimeFractionOffset, VJan15TimeNoZone, VFeb30TimeZ, VJan15Hour25Z, VHttpX,
   VHttpsX, VFtpX, VAAtB, VNoAtSign}

PropInputs ==
  /\ propType \in PropTypes
  /\ propRaw \in PropValues
  /\ built = NotBuiltProp
  /\ bpc = "input"

PropIdle ==
  /\ propType = "none" /\ propRaw = <<>> /\ built = NotBuiltProp /\ bpc = "idle"

\* buildPropValue(type, value)
CallBuildPropValue ==
  /\ bpc = "input"
  /\ built' = buildPropValue(propType, propRaw)
  /\ bpc' = "built"
  /\ UNCHANGED <<propType, propRaw>>
  /\ UNCHANGED notPropVars

NextProp == CallBuildPropValue

(***************************************************************************)
(* The add and update commands (commands/pages.js) and buildProperties     *)
(* (lib/context.js)                                                        *)
(***************************************************************************)
MaxProps == 2
MaxChunks == 2

\* if (built && built.error)
BuiltHasErrorIgnored(b) == FALSE
BuiltHasError(b) == b.key = "error"

\* properties[schemaEntry.name] = built
SetProperty(obj, name, b) == {q \in obj : q[1] # name} \cup {<<name, b>>}

KvKey(kv) == sliceTo(kv, indexOf(kv, <<"=">>))
KvValue(kv) == sliceFrom(kv, indexOf(kv, <<"=">>) + 1)

CmdKvs ==
  {<<"S", "=", "x">>, <<"s", "=", "y">>, <<"a", "=", "5">>, <<"a", "=">> \o VAbc,
   <<"D", "=">> \o VFeb30, <<"L", "=">> \o VFtpX, <<"z", "=", "5">>,
   <<"a", "a", "a">>}

CmdInputs ==
  /\ command \in {"add", "update"}
  /\ target \in IF command = "add" THEN {"alias", "uuid", "unknown"}
               ELSE {"alias", "aliasNoFilter", "aliasBadFilter", "uuid", "unknown"}
  /\ fromFile \in IF command = "add" THEN {"none", "missing", "md"} ELSE {"none"}
  /\ allProps \in UNION {[1..n -> CmdKvs] : n \in 0..MaxProps}
  /\ kvIdx = 0 /\ properties = {} /\ chunksLeft = 0
  /\ netLog = <<>> /\ stderr = "" /\ exitCode = -1
  /\ mpc = "start"

CmdIdle ==
  /\ command = "none" /\ target = "none" /\ allProps = <<>> /\ fromFile = "none"
  /\ kvIdx = 0 /\ properties = {} /\ chunksLeft = 0
  /\ netLog = <<>> /\ stderr = "" /\ exitCode = -1
  /\ mpc = "idle"

\* console.error(msg); process.exit(1)
Exit(msg) == stderr' = msg /\ exitCode' = 1 /\ mpc' = "exited"
\* a rejected request: runCommand's catch prints '<Name> failed' and exits 1
Throw == Exit("failed")
\* the action returns normally
Finish == exitCode' = 0 /\ mpc' = "exited" /\ UNCHANGED stderr

Request(name) == netLog' = Append(netLog, name)

\* add: resolveDb(db)
AddResolveDb ==
  /\ mpc = "start" /\ command = "add"
  /\ IF target = "unknown" THEN Exit("Unknown database alias")
     ELSE mpc' = "schema" /\ UNCHANGED <<stderr, exitCode>>
  /\ UNCHANGED <<command, target, allProps, fromFile, kvIdx, properties, chunksLeft,
                 netLog>>
  /\ UNCHANGED notCmdVars

\* update: resolvePageId(target, opts.filter), up to its first request
UpdateResolvePageId ==
  /\ mpc = "start" /\ command = "update"
  /\ CASE target = "aliasNoFilter" -> Exit("--filter is required")
       [] target = "unknown" -> Exit("Unknown alias")
       [] target = "uuid" -> mpc' = "retrieve" /\ UNCHANGED <<stderr, exitCode>>
       [] OTHER -> mpc' = "filterSchema" /\ UNCHANGED <<stderr, exitCode>>
  /\ UNCHANGED <<command, target, allProps, fromFile, kvIdx, properties, chunksLeft,
                 netLog>>
  /\ UNCHANGED notCmdVars

\* resolvePageId: buildFilter(dbIds, filterStr), which fetches the schema
UpdateBuildFilter ==
  /\ mpc = "filterSchema"
  /\ Request("dataSources.retrieve")
  /\ \E ok \in BOOLEAN :
       IF ~ok THEN Throw
       ELSE IF target = "aliasBadFilter" THEN Exit("filter error")
       ELSE mpc' = "query" /\ UNCHANGED <<stderr, exitCode>>
  /\ UNCHANGED <<command, target, allProps, fromFile, kvIdx, properties, chunksLeft>>
  /\ UNCHANGED notCmdVars

\* resolvePageId: notion.dataSources.query and the match count
UpdateQueryPage ==
  /\ mpc = "query"
  /\ Request("dataSources.query")
  /\ \E ok \in BOOLEAN, matches \in 0..2 :
       IF ~ok THEN Throw
       ELSE IF matches = 0 THEN Exit("No matching page found")
       ELSE IF matches > 1 THEN Exit("Multiple pages match")
       ELSE mpc' = "schema" /\ UNCHANGED <<stderr, exitCode>>
  /\ UNCHANGED <<command, target, allProps, fromFile, kvIdx, properties, chunksLeft>>
  /\ UNCHANGED notCmdVars

\* update with a raw page id: notion.pages.retrieve to find the data source
UpdateRetrievePage ==
  /\ mpc = "retrieve"
  /\ Request("pages.retrieve")
  /\ \E ok \in BOOLEAN, inDatabase \in BOOLEAN :
       IF ~ok THEN Throw
       ELSE IF ~inDatabase THEN Exit("Page is not in a database")
       ELSE mpc' = "schema" /\ UNCHANGED <<stderr, exitCode>>
  /\ UNCHANGED <<command, target, allProps, fromFile, kvIdx, properties, chunksLeft>>
  /\ UNCHANGED notCmdVars

\* schema = await getDbSchema(dbIds); allProps; if (allProps.length === 0)
CmdGetDbSchema ==
  /\ mpc = "schema"
  /\ Request("dataSources.retrieve")
  /\ \E ok \in BOOLEAN :
       IF ~ok THEN Throw
       ELSE IF Len(allProps) = 0 THEN Exit("No properties")
       ELSE mpc' = "buildProperties" /\ UNCHANGED <<stderr, exitCode>>
  /\ UNCHANGED <<command, target, allProps, fromFile, kvIdx, properties, chunksLeft>>
  /\ UNCHANGED notCmdVars

\* buildProperties: const schema = await getDbSchema(dbIds); const properties = {}
BuildPropertiesGetSchema ==
  /\ mpc = "buildProperties"
  /\ Request("dataSources.retrieve")
  /\ \E ok \in BOOLEAN :
       IF ~ok THEN Throw /\ UNCHANGED <<kvIdx, properties>>
       ELSE /\ kvIdx' = 1 /\ properties' = {} /\ mpc' = "loop"
            /\ UNCHANGED <<stderr, exitCode>>
  /\ UNCHANGED <<command, target, allProps, fromFile, chunksLeft>>
  /\ UNCHANGED notCmdVars

\* buildProperties: one iteration of for (const kv of props)
BuildPropertiesStep ==
  /\ mpc = "loop"
  /\ kvIdx <= Len(allProps)
  /\ LET kv == allProps[kvIdx]
         eqIdx == indexOf(kv, <<"=">>)
     IN IF eqIdx = -1
          THEN Exit("Invalid property format") /\ UNCHANGED <<kvIdx, properties>>
        ELSE IF ~SchemaHas(toLowerCase(KvKey(kv)))
          THEN Exit("not found in database schema") /\ UNCHANGED <<kvIdx, properties>>
        ELSE LET schemaEntry == SchemaGet(toLowerCase(KvKey(kv)))
                 b == buildPropValue(schemaEntry.type, KvValue(kv))
             IN IF BuiltHasError(b)
                  THEN Exit("Invalid value") /\ UNCHANGED <<kvIdx, properties>>
                  ELSE /\ properties' = SetProperty(properties, schemaEntry.name, b)
                       /\ kvIdx' = kvIdx + 1
                       /\ UNCHANGED <<stderr, exitCode, mpc>>
  /\ UNCHANGED <<command, target, allProps, fromFile, chunksLeft, netLog>>
  /\ UNCHANGED notCmdVars

\* buildProperties: return properties
BuildPropertiesReturn ==
  /\ mpc = "loop"
  /\ kvIdx > Len(allProps)
  /\ mpc' = "send"
  /\ UNCHANGED <<command, target, allProps, fromFile, kvIdx, properties, chunksLeft,
                 netLog, stderr, exitCode>>
  /\ UNCHANGED notCmdVars

\* add: notion.pages.create({ parent, properties }); then --from
AddPagesCreate ==
  /\ mpc = "send" /\ command = "add"
  /\ Request("pages.create")
  /\ \E ok \in BOOLEAN, chunks \in 0..MaxChunks :
       IF ~ok THEN Throw /\ UNCHANGED chunksLeft
       ELSE IF fromFile = "none" THEN Finish /\ UNCHANGED chunksLeft
       ELSE IF fromFile = "missing" THEN Exit("File not found") /\ UNCHANGED chunksLeft
       ELSE /\ chunksLeft' = chunks /\ mpc' = "append"
            /\ UNCHANGED <<stderr, exitCode>>
  /\ UNCHANGED <<command, target, allProps, fromFile, kvIdx, properties>>
  /\ UNCHANGED notCmdVars

\* add --from: notion.blocks.children.append, 100 blocks per request
AddAppendBlocks ==
  /\ mpc = "append"
  /\ chunksLeft > 0
  /\ Request("blocks.children.append")
  /\ \E ok \in BOOLEAN :
       IF ~ok THEN Throw /\ UNCHANGED chunksLeft
       ELSE chunksLeft' = chunksLeft - 1 /\ UNCHANGED <<stderr, exitCode, mpc>>
  /\ UNCHANGED <<command, target, allProps, fromFile, kvIdx, properties>>
  /\ UNCHANGED notCmdVars

AddImported ==
  /\ mpc = "append"
  /\ chunksLeft = 0
  /\ Finish
  /\ UNCHANGED <<command, target, allProps, fromFile, kvIdx, properties, chunksLeft,
                 netLog>>
  /\ UNCHANGED notCmdVars

\* update: notion.pages.update({ page_id, properties })
UpdatePagesUpdate ==
  /\ mpc = "send" /\ command = "update"
  /\ Request("pages.update")
  /\ \E ok \in BOOLEAN : IF ~ok THEN Throw ELSE Finish
  /\ UNCHANGED <<command, target, allProps, fromFile, kvIdx, properties, chunksLeft>>
  /\ UNCHANGED notCmdVars

NextCmd ==
  \/ AddResolveDb
  \/ UpdateResolvePageId
  \/ UpdateBuildFilter
  \/ UpdateQueryPage
  \/ UpdateRetrievePage
  \/ CmdGetDbSchema
  \/ BuildPropertiesGetSchema
  \/ BuildPropertiesStep
  \/ BuildPropertiesReturn
  \/ AddPagesCreate
  \/ AddAppendBlocks
  \/ AddImported
  \/ UpdatePagesUpdate

(***************************************************************************)
(* markdownToBlocks and blocksToMarkdown (lib/helpers.js)                  *)
(***************************************************************************)
MaxLines == 3

Newline == <<"\n">>
\* the character U+0060, which a TLA+ string cannot hold
Backtick == "backtick"
FenceMark == <<Backtick, Backtick, Backtick>>
PlainTextLang == <<"p", "l", "a", "i", "n", " ", "t", "e", "x", "t">>

\* Array.prototype.join(sep)
RECURSIVE join(_, _)
join(strs, sep) ==
  IF strs = <<>> THEN <<>>
  ELSE IF Len(strs) = 1 THEN strs[1]
  ELSE strs[1] \o sep \o join(Tail(strs), sep)

\* a rich_text item as markdownToBlocks builds it: { type: 'text', text: { content } },
\* with no plain_text field
TextItem(content) == [content |-> content, hasPlainText |-> FALSE, plain_text |-> <<>>]

\* parseInlineFormatting on text in which the formatting regex finds no match
parseInlineFormatting(text) == <<TextItem(text)>>

Block(type, rich_text, checked, language) ==
  [type |-> type, rich_text |-> rich_text, checked |-> checked, language |-> language]

\* /^---+\s*$/ and /^\*\*\*+\s*$/
RuleRegex(line, c) ==
  /\ Len(line) >= 3
  /\ \E k \in 3..Len(line) :
       /\ \A i \in 1..k : line[i] = c
       /\ \A i \in (k + 1)..Len(line) : line[i] = " "

\* /^[-*] /
BulletRegex(line) == Len(line) >= 2 /\ line[1] \in {"-", "*"} /\ line[2] = " "

\* /^\d+\.\s/: the length of the match, 0 if none
NumberedMatch(line) ==
  LET ks == {k \in 1..(Len(line) - 2) :
               AllDigits(line, 1, k) /\ line[k + 1] = "." /\ line[k + 2] = " "}
  IN IF ks = {} THEN 0 ELSE (CHOOSE k \in ks : TRUE) + 2

IsTodoNever(line) == FALSE

\* line.startsWith('- [ ] ') || line.startsWith('- [x] ')
IsTodo(line) ==
  \/ startsWith(line, <<"-", " ", "[", " ", "]", " ">>)
  \/ startsWith(line, <<"-", " ", "[", "x", "]", " ">>)

ClosingFenceNever(lines, i) == Len(lines) + 1

\* index of the first line from i on that starts with the fence, Len + 1 if none
ClosingFence(lines, i) ==
  LET js == {j \in i..Len(lines) : startsWith(lines[j], FenceMark)}
  IN IF js = {} THEN Len(lines) + 1 ELSE CHOOSE j \in js : \A k \in js : j <= k

RECURSIVE parseLines(_, _)
parseLines(lines, i) ==
  IF i > Len(lines) THEN <<>>
  ELSE LET line == lines[i]
           one(block) == <<block>> \o parseLines(lines, i + 1)
       IN IF startsWith(line, FenceMark)
            THEN LET given == trim(sliceFrom(line, 3))
                     lang == IF given = <<>> THEN PlainTextLang ELSE given
                     close == ClosingFence(lines, i + 1)
                     codeLines == SubSeq(lines, i + 1, close - 1)
                 IN <<Block("code", <<TextItem(join(codeLines, Newline))>>, FALSE, lang)>>
                    \o parseLines(lines, close + 1)
          ELSE IF RuleRegex(line, "-") \/ RuleRegex(line, "*")
            THEN one(Block("divider", <<>>, FALSE, <<>>))
          ELSE IF startsWith(line, <<"#", "#", "#", " ">>)
            THEN one(Block("heading_3", parseInlineFormatting(sliceFrom(line, 4)), FALSE, <<>>))
          ELSE IF startsWith(line, <<"#", "#", " ">>)
            THEN one(Block("heading_2", parseInlineFormatting(sliceFrom(line, 3)), FALSE, <<>>))
          ELSE IF startsWith(line, <<"#", " ">>)
            THEN one(Block("heading_1", parseInlineFormatting(sliceFrom(line, 2)), FALSE, <<>>))
          ELSE IF startsWith(line, <<">", " ">>)
            THEN one(Block("quote", parseInlineFormatting(sliceFrom(line, 2)), FALSE, <<>>))
          ELSE IF IsTodo(line)
            THEN one(Block("to_do", parseInlineFormatting(sliceFrom(line, 6)),
                           startsWith(line, <<"-", " ", "[", "x", "]", " ">>), <<>>))
          ELSE IF BulletRegex(line)
            THEN one(Block("bulleted_list_item",
                           parseInlineFormatting(sliceFrom(line, 2)), FALSE, <<>>))
          ELSE IF NumberedMatch(line) > 0
            THEN one(Block("numbered_list_item",
                           parseInlineFormatting(sliceFrom(line, NumberedMatch(line))),
                           FALSE, <<>>))
          ELSE IF trim(line) = <<>>
            THEN parseLines(lines, i + 1)
          ELSE one(Block("paragraph", parseInlineFormatting(line), FALSE, <<>>))

markdownToBlocks(text) == parseLines(split(text, Newline), 1)

\* rt.map(r => r.plain_text || '').join('')
richTextToPlain(rt) ==
  join([i \in 1..Len(rt) |-> IF rt[i].hasPlainText THEN rt[i].plain_text ELSE <<>>],
       <<>>)

\* the lines blocksToMarkdown pushes for one block
BlockLines(block) ==
  LET text == richTextToPlain(block.rich_text)
  IN CASE block.type = "heading_1" -> <<<<"#", " ">> \o text>>
       [] block.type = "heading_2" -> <<<<"#", "#", " ">> \o text>>
       [] block.type = "heading_3" -> <<<<"#", "#", "#", " ">> \o text>>
       [] block.type = "paragraph" -> <<text>>
       [] block.type = "bulleted_list_item" -> <<<<"-", " ">> \o text>>
       [] block.type = "numbered_list_item" -> <<<<"1", ".", " ">> \o text>>
       [] block.type = "to_do" ->
            <<<<"-", " ", "[", IF block.checked THEN "x" ELSE " ", "]", " ">> \o text>>
       [] block.type = "quote" -> <<<<">", " ">> \o text>>
       [] block.type = "code" -> <<FenceMark \o block.language, text, FenceMark>>
       [] block.type = "divider" -> <<<<"-", "-", "-">>>>
       [] OTHER -> IF block.rich_text # <<>> THEN <<text>> ELSE <<>>

RECURSIVE renderLines(_)
renderLines(bs) ==
  IF bs = <<>> THEN <<>> ELSE BlockLines(bs[1]) \o renderLines(Tail(bs))

blocksToMarkdown(bs) == join(renderLines(bs), Newline)

\* ---- inputs ----
LH1 == <<"#", " ", "a">>
LH2 == <<"#", "#", " ", "a">>
LH3 == <<"#", "#", "#", " ", "a">>
LPara == <<"a", "b">>
LDash == <<"-", " ", "a">>
LStar == <<"*", " ", "a">>
LNum == <<"2", ".", " ", "a">>
LTodoDone == <<"-", " ", "[", "x", "]", " ", "a">>
LTodoOpen == <<"-", " ", "[", " ", "]", " ", "a">>
LQuote == <<">", " ", "a">>
LFenceJs == FenceMark \o <<"j", "s">>
LFence == FenceMark
LRule == <<"-", "-", "-">>

MdLines == {LH1, LH2, LH3, LPara, LDash, LStar, LNum, LTodoDone, LTodoOpen, LQuote,
            LFenceJs, LFence, LRule}

\* lines that share a prefix with a rule without matching it, and blank lines
LBlank == <<>>
LSpaces == <<" ", " ">>
LRuleStar == <<"*", "*", "*">>
LRuleLong == <<"-", "-", "-", "-", " ">>
LTodoUpper == <<"-", " ", "[", "X", "]", " ", "a">>
LTodoBare == <<"-", " ", "[", " ", "]">>
LH4 == <<"#", "#", "#", "#", " ", "a">>
LHashNoSpace == <<"#", "a">>
LDashNoSpace == <<"-", "a">>
LDashIndented == <<" ", "-", " ", "a">>
LNumLong == <<"1", "2", ".", " ", "a">>
LNumNoSpace == <<"1", ".", "a">>
LQuoteNoSpace == <<">", "a">>

DispatchLines == MdLines \cup
  {LBlank, LSpaces, LRuleStar, LRuleLong, LTodoUpper, LTodoBare, LH4, LHashNoSpace,
   LDashNoSpace, LDashIndented, LNumLong, LNumNoSpace, LQuoteNoSpace}

FenceLines == {LFence, LBlank, LH3, LDash, LRule}

\* the texts of at most n lines drawn from a set of lines
Texts(lineSet, n) == {join(ls, Newline) : ls \in UNION {[1..k -> lineSet] : k \in 1..n}}

MdInputs ==
  /\ md \in Texts(MdLines, MaxLines) \cup Texts(DispatchLines, MaxDispatchLines)
             \cup Texts(FenceLines, MaxFenceLines)
  /\ blocks = <<>> /\ rendered = <<>> /\ reparsed = <<>>
  /\ mdpc = "input"

MdIdle ==
  /\ md = <<>> /\ blocks = <<>> /\ rendered = <<>> /\ reparsed = <<>> /\ mdpc = "idle"

\* blocks = markdownToBlocks(md)
CallMarkdownToBlocks ==
  /\ mdpc = "input"
  /\ blocks' = markdownToBlocks(md)
  /\ mdpc' = "parsed"
  /\ UNCHANGED <<md, rendered, reparsed>>
  /\ UNCHANGED notMdVars

\* rendered = blocksToMarkdown(blocks)
CallBlocksToMarkdown ==
  /\ mdpc = "parsed"
  /\ rendered' = blocksToMarkdown(blocks)
  /\ mdpc' = "rendered"
  /\ UNCHANGED <<md, blocks, reparsed>>
  /\ UNCHANGED notMdVars

\* reparsed = markdownToBlocks(rendered)
CallMarkdownToBlocksAgain ==
  /\ mdpc = "rendered"
  /\ reparsed' = markdownToBlocks(rendered)
  /\ mdpc' = "reparsed"
  /\ UNCHANGED <<md, blocks, rendered>>
  /\ UNCHANGED notMdVars

NextMd ==
  \/ CallMarkdownToBlocks
  \/ CallBlocksToMarkdown
  \/ CallMarkdownToBlocksAgain

(***************************************************************************)
(* kebabToProperty and extractDynamicProps (lib/helpers.js)                *)
(***************************************************************************)
MaxArgv == 4

DoubleDash == <<"-", "-">>

\* the schema of the unit tests: Name, Status, Due Date
DynSchemaEntries ==
  {SchemaEntry(NameProp, "title"),
   SchemaEntry(<<"S", "t", "a", "t", "u", "s">>, "select"),
   SchemaEntry(<<"D", "u", "e", " ", "D", "a", "t", "e">>, "date")}
DynSchemaHas(key) == \E e \in DynSchemaEntries : toLowerCase(e.name) = key
DynSchemaGet(key) == CHOOSE e \in DynSchemaEntries : toLowerCase(e.name) = key

\* the commander flags the add command passes as knownFlags
KnownFlags == {<<"p", "r", "o", "p">>, <<"f", "r", "o", "m">>}

\* kebab.replace(/^-+/, '')
RECURSIVE stripLeadingDashes(_)
stripLeadingDashes(str) ==
  IF str # <<>> /\ str[1] = "-" THEN stripLeadingDashes(Tail(str)) ELSE str

\* clean.replace(/-/g, ' ')
dashesToSpaces(str) == [i \in 1..Len(str) |-> IF str[i] = "-" THEN " " ELSE str[i]]

NoEntry == SchemaEntry(<<>>, "none")

\* the exact lowercase match, then the kebab-to-space and kebab-to-title-case
\* conversions, both looked up lowercased
kebabToProperty(kebab) ==
  LET clean == stripLeadingDashes(kebab)
      spaced == dashesToSpaces(clean)
  IN IF DynSchemaHas(toLowerCase(clean)) THEN DynSchemaGet(toLowerCase(clean))
     ELSE IF DynSchemaHas(toLowerCase(spaced)) THEN DynSchemaGet(toLowerCase(spaced))
     ELSE NoEntry

\* arg.startsWith('--') && arg !== '--'
IsFlagToken(arg) == startsWith(arg, DoubleDash) /\ arg # DoubleDash
\* arg.replace(/^--/, '')
FlagName(arg) == sliceFrom(arg, 2)
\* known.has(flagName) || known.has(arg)
IsKnownFlag(arg) == FlagName(arg) \in KnownFlags \/ arg \in KnownFlags

\* i + 1 < argv.length && !argv[i + 1].startsWith('--')
HasValueAnyToken(args, i) == i + 1 <= Len(args)
HasValue(args, i) == i + 1 <= Len(args) /\ ~startsWith(args[i + 1], DoubleDash)

\* ---- inputs ----
TName == <<"-", "-", "n", "a", "m", "e">>
TStatus == <<"-", "-", "s", "t", "a", "t", "u", "s">>
TDueDate == <<"-", "-", "d", "u", "e", "-", "d", "a", "t", "e">>
TProp == <<"-", "-", "p", "r", "o", "p">>
TBogus == <<"-", "-", "b", "o", "g", "u", "s">>
TValue == <<"x">>

ArgvTokens == {TName, TStatus, TDueDate, TProp, TBogus, DoubleDash, TValue}

DynInputs ==
  /\ argv \in UNION {[1..n -> ArgvTokens] : n \in 0..MaxArgv}
  /\ props = <<>> /\ argIdx = 0 /\ dynResult = <<>>
  /\ dpc = "start"

DynIdle ==
  /\ argv = <<>> /\ props = <<>> /\ argIdx = 0 /\ dynResult = <<>> /\ dpc = "idle"

\* const props = []; for (let i = 0; ...
DynEnter ==
  /\ dpc = "start"
  /\ props' = <<>>
  /\ argIdx' = 1
  /\ dpc' = "loop"
  /\ UNCHANGED <<argv, dynResult>>
  /\ UNCHANGED notDynVars

\* if (!arg.startsWith('--') || arg === '--') continue
DynNotAFlag ==
  /\ dpc = "loop" /\ argIdx <= Len(argv)
  /\ ~IsFlagToken(argv[argIdx])
  /\ argIdx' = argIdx + 1
  /\ UNCHANGED <<argv, props, dynResult, dpc>>
  /\ UNCHANGED notDynVars

\* if (known.has(flagName) || known.has(arg)) continue
DynKnownFlag ==
  /\ dpc = "loop" /\ argIdx <= Len(argv)
  /\ IsFlagToken(argv[argIdx])
  /\ IsKnownFlag(argv[argIdx])
  /\ argIdx' = argIdx + 1
  /\ UNCHANGED <<argv, props, dynResult, dpc>>
  /\ UNCHANGED notDynVars

\* the if on schemaEntry and the next token is false: nothing is pushed
DynNoPush ==
  /\ dpc = "loop" /\ argIdx <= Len(argv)
  /\ IsFlagToken(argv[argIdx])
  /\ ~IsKnownFlag(argv[argIdx])
  /\ \/ kebabToProperty(FlagName(argv[argIdx])) = NoEntry
     \/ ~HasValue(argv, argIdx)
  /\ argIdx' = argIdx + 1
  /\ UNCHANGED <<argv, props, dynResult, dpc>>
  /\ UNCHANGED notDynVars

\* props.push(`${schemaEntry.name}=${argv[i + 1]}`); i++
DynPush ==
  /\ dpc = "loop" /\ argIdx <= Len(argv)
  /\ IsFlagToken(argv[argIdx])
  /\ ~IsKnownFlag(argv[argIdx])
  /\ kebabToProperty(FlagName(argv[argIdx])) # NoEntry
  /\ HasValue(argv, argIdx)
  /\ props' = Append(props, kebabToProperty(FlagName(argv[argIdx])).name
                            \o <<"=">> \o argv[argIdx + 1])
  /\ argIdx' = argIdx + 2
  /\ UNCHANGED <<argv, dynResult, dpc>>
  /\ UNCHANGED notDynVars

\* return props
DynReturn ==
  /\ dpc = "loop" /\ argIdx > Len(argv)
  /\ dynResult' = props
  /\ dpc' = "done"
  /\ UNCHANGED <<argv, props, argIdx>>
  /\ UNCHANGED notDynVars

NextDyn ==
  \/ DynEnter
  \/ DynNotAFlag
  \/ DynKnownFlag
  \/ DynNoPush
  \/ DynPush
  \/ DynReturn

(***************************************************************************)
(* Workspace profiles: init and workspace add / use / remove               *)
(* (bin/notion.js), on the config that loadConfig returns (lib/config.js)  *)
(***************************************************************************)
\* names the user can type; "constructor" is a property every object inherits
\* from Object.prototype
WsNames == {"default", "work", "home", "constructor"}
InheritedNames == {"constructor"}
ApiKeys == {"ntn_a", "ntn_b"}
NoKey == "none"

Workspace(apiKey) == [apiKey |-> apiKey]

\* Object.keys(config.workspaces)
Keys(cfg) == DOMAIN cfg.workspaces

\* the truthiness of config.workspaces[name]: an own key holds a workspace
\* object, and a name Object.prototype defines yields the inherited value
HasWorkspace(cfg, name) == name \in Keys(cfg) \/ name \in InheritedNames

\* config.workspaces[name] = ws
WithWorkspace(cfg, name, ws) ==
  [cfg EXCEPT !.workspaces =
     [n \in Keys(cfg) \cup {name} |-> IF n = name THEN ws ELSE cfg.workspaces[n]]]

\* delete config.workspaces[name]
WithoutWorkspace(cfg, name) ==
  [cfg EXCEPT !.workspaces = [n \in Keys(cfg) \ {name} |-> cfg.workspaces[n]]]

\* config.js 26: no config file, or a corrupted one
DefaultConfig ==
  [activeWorkspace |-> "default",
   workspaces |-> [n \in {"default"} |-> Workspace(NoKey)]]

\* config.js 35-41: an old flat config { apiKey, aliases } wrapped in "default"
migrateConfig(oldApiKey) ==
  [activeWorkspace |-> "default",
   workspaces |-> [n \in {"default"} |-> Workspace(oldApiKey)]]

NoConfig == [activeWorkspace |-> "none", workspaces |-> <<>>]

WsInputs ==
  /\ config \in {DefaultConfig} \cup {migrateConfig(k) : k \in ApiKeys \cup {NoKey}}
  /\ wsCommand = "none"
  /\ wsExit = 0

WsIdle == config = NoConfig /\ wsCommand = "idle" /\ wsExit = 0

\* a command that ends in process.exit(1) before saveConfig
WsFails(cmd) ==
  /\ wsCommand' = cmd
  /\ wsExit' = 1
  /\ UNCHANGED config

\* a command that reaches saveConfig(cfg)
WsSaves(cmd, cfg) ==
  /\ wsCommand' = cmd
  /\ wsExit' = 0
  /\ config' = cfg

\* notion.js 317-343: notion [--workspace w] init [--key k]
NotionInit ==
  /\ wsCommand # "idle"
  /\ \E flag \in WsNames \cup {"none"}, apiKey \in ApiKeys \cup {NoKey} :
       LET wsName == IF flag # "none" THEN flag ELSE config.activeWorkspace
           created == IF HasWorkspace(config, wsName) THEN config
                      ELSE WithWorkspace(config, wsName, Workspace(NoKey))
           keyed == IF wsName \in Keys(created)
                      THEN WithWorkspace(created, wsName, Workspace(apiKey))
                      ELSE created
       IN IF apiKey = NoKey
            THEN WsFails("init")
            ELSE WsSaves("init", [keyed EXCEPT !.activeWorkspace = wsName])
  /\ UNCHANGED notWsVars

\* notion.js 554-569: notion workspace add <name> --key k
WorkspaceAdd ==
  /\ wsCommand # "idle"
  /\ \E name \in WsNames, apiKey \in ApiKeys :
       IF HasWorkspace(config, name)
         THEN WsFails("workspace add")
         ELSE WsSaves("workspace add", WithWorkspace(config, name, Workspace(apiKey)))
  /\ UNCHANGED notWsVars

\* notion.js 592-607: notion workspace use <name>
WorkspaceUse ==
  /\ wsCommand # "idle"
  /\ \E name \in WsNames :
       IF ~HasWorkspace(config, name)
         THEN WsFails("workspace use")
         ELSE WsSaves("workspace use", [config EXCEPT !.activeWorkspace = name])
  /\ UNCHANGED notWsVars

\* notion.js 610-625: notion workspace remove <name>
WorkspaceRemove ==
  /\ wsCommand # "idle"
  /\ \E name \in WsNames :
       IF ~HasWorkspace(config, name) \/ name = config.activeWorkspace
         THEN WsFails("workspace remove")
         ELSE WsSaves("workspace remove", WithoutWorkspace(config, name))
  /\ UNCHANGED notWsVars

NextWs ==
  \/ NotionInit
  \/ WorkspaceAdd
  \/ WorkspaceUse
  \/ WorkspaceRemove

(***************************************************************************)
(* Specifications                                                          *)
(***************************************************************************)
InitWs ==
  /\ PaginateIdle /\ RetryIdle /\ FilterIdle /\ CompoundIdle
  /\ PropIdle /\ CmdIdle /\ MdIdle /\ DynIdle /\ WsInputs
SpecWs == InitWs /\ [][NextWs]_vars

InitPaginate ==
  /\ PaginateInputs /\ RetryIdle /\ FilterIdle /\ CompoundIdle
  /\ PropIdle /\ CmdIdle /\ MdIdle /\ DynIdle /\ WsIdle
SpecPaginate == InitPaginate /\ [][NextPaginate]_vars

\* every awaited fetch settles and the event loop resumes the function
InitPaginateLive ==
  /\ PaginateUnendingInputs /\ RetryIdle /\ FilterIdle /\ CompoundIdle
  /\ PropIdle /\ CmdIdle /\ MdIdle /\ DynIdle /\ WsIdle
SpecPaginateLive ==
  InitPaginateLive /\ [][NextPaginate]_vars /\ WF_vars(NextPaginate)

InitQuery ==
  /\ QueryInputs /\ RetryIdle /\ FilterIdle /\ CompoundIdle
  /\ PropIdle /\ CmdIdle /\ MdIdle /\ DynIdle /\ WsIdle
SpecQuery == InitQuery /\ [][NextQuery]_vars

InitRetry ==
  /\ PaginateIdle /\ RetryIdle /\ FilterIdle /\ CompoundIdle
  /\ PropIdle /\ CmdIdle /\ MdIdle /\ DynIdle /\ WsIdle
SpecRetry == InitRetry /\ [][NextRetry]_vars

InitFilter ==
  /\ PaginateIdle /\ RetryIdle /\ FilterInputsState /\ CompoundIdle
  /\ PropIdle /\ CmdIdle /\ MdIdle /\ DynIdle /\ WsIdle
SpecFilter == InitFilter /\ [][NextFilter]_vars

InitCompound ==
  /\ PaginateIdle /\ RetryIdle /\ FilterIdle /\ CompoundInputs
  /\ PropIdle /\ CmdIdle /\ MdIdle /\ DynIdle /\ WsIdle
SpecCompound == InitCompound /\ [][NextCompound]_vars

InitProp ==
  /\ PaginateIdle /\ RetryIdle /\ FilterIdle /\ CompoundIdle
  /\ PropInputs /\ CmdIdle /\ MdIdle /\ DynIdle /\ WsIdle
SpecProp == InitProp /\ [][NextProp]_vars

InitCmd ==
  /\ PaginateIdle /\ RetryIdle /\ FilterIdle /\ CompoundIdle
  /\ PropIdle /\ CmdInputs /\ MdIdle /\ DynIdle /\ WsIdle
SpecCmd == InitCmd /\ [][NextCmd]_vars

InitMd ==
  /\ PaginateIdle /\ RetryIdle /\ FilterIdle /\ CompoundIdle
  /\ PropIdle /\ CmdIdle /\ MdInputs /\ DynIdle /\ WsIdle
SpecMd == InitMd /\ [][NextMd]_vars

InitDyn ==
  /\ PaginateIdle /\ RetryIdle /\ FilterIdle /\ CompoundIdle
  /\ PropIdle /\ CmdIdle /\ MdIdle /\ DynInputs /\ WsIdle
SpecDyn == InitDyn /\ [][NextDyn]_vars

(***************************************************************************)
(* Properties of paginate                                                  *)
(***************************************************************************)
\* T: the total number of results upstream holds
Total == SumLen(pages, Len(pages))

\* index of the upstream page that delivers the last result (0 when T = 0)
LastNonEmptyPage ==
  IF \E k \in 1..Len(pages) : pages[k].n > 0
    THEN CHOOSE k \in 1..Len(pages) :
           pages[k].n > 0 /\ \A j \in (k + 1)..Len(pages) : pages[j].n = 0
    ELSE 0

Returned == ppc = "done"

\* C1 (as stated): with a limit L over T upstream results, L < T returns exactly
\* the first L results with truncated = true, and L >= T returns all T results
\* with truncated = false.
C1_AsStated ==
  (Returned /\ hasLimit) =>
     IF limit < Total
       THEN ret.results = Range(1, limit) /\ ret.truncated
       ELSE ret.results = Range(1, Total) /\ ~ret.truncated

\* C1 (amended): L < T returns exactly the first L results with truncated = true;
\* L >= T returns all T results, and truncated is false except when L = 0 or when
\* L = T and the page that delivered the last result reported has_more = true.
C1_LimitTruncation ==
  (Returned /\ hasLimit) =>
     IF limit < Total
       THEN ret.results = Range(1, limit) /\ ret.truncated
       ELSE /\ ret.results = Range(1, Total)
            /\ ret.truncated <=>
                 (limit = 0 \/ (limit = Total /\ LastNonEmptyPage < Len(pages)))

C1_Witness ==
  /\ Returned /\ hasLimit /\ limit > 0 /\ limit = Total
  /\ LastNonEmptyPage < Len(pages)
  /\ ret.truncated /\ ret.results = Range(1, Total)

\* C2: without a limit paginate fetches every page up to the one reporting
\* has_more = false and returns the in-order concatenation of all their results
\* with truncated = false, has_more = false and next_cursor = null; truncated is
\* never set without a limit.
C2_NoLimitFetchesAll ==
  /\ ~hasLimit => ~truncated
  /\ (Returned /\ ~hasLimit) =>
       /\ Len(requests) = Len(pages)
       /\ lastPage = Len(pages) /\ ~PageHasMore(pages, lastPage)
       /\ ret.results = Range(1, Total)
       /\ ret.truncated = FALSE
       /\ ret.has_more = FALSE
       /\ ret.next_cursor = CursorNull

C2_Witness ==
  /\ Returned /\ ~hasLimit /\ Len(pages) >= 2 /\ Len(ret.results) >= 3
  /\ pages[Len(pages)].cur

\* C3 (as stated): the returned truncated flag is true exactly when the last
\* fetched page reported has_more = true or was cut mid-page by the slice.
C3_AsStated ==
  Returned =>
    (ret.truncated <=>
       (lastPage > 0 /\ (PageHasMore(pages, lastPage) \/ cutMidPage)))

\* C3 (amended): the returned truncated flag is true exactly when a limit was
\* supplied and either the limit is 0 (nothing is fetched), or the last fetched
\* page reported has_more = true, or that page was cut mid-page by the slice.
C3_TruncatedIff ==
  Returned =>
    (ret.truncated <=>
       (hasLimit /\ (limit = 0 \/
          (lastPage > 0 /\ (PageHasMore(pages, lastPage) \/ cutMidPage)))))

C3_Witness ==
  Returned /\ ret.truncated /\ cutMidPage /\ Len(ret.results) = limit /\ limit > 0

(***************************************************************************)
(* Properties of withRetry                                                 *)
(***************************************************************************)
\* a rate-limit signal: status 429 or code 'rate_limited'
RateLimitSignal(o) ==
  o.kind = "err" /\ o.isObject /\ (o.status = 429 \/ o.code = "rate_limited")

RetryDone == rpc = "done"

\* the retry notifications (onRetry calls or console messages) in the log
Notifications == {i \in 1..Len(log) : log[i] \in {"onRetry", "console.error"}}

\* call, then (notification, sleep, call) for every further attempt
AlternatingLog(n) ==
  /\ Len(log) = 3 * (n - 1) + 1
  /\ \A i \in 1..Len(log) :
       /\ (i % 3 = 1) => log[i] = "call"
       /\ (i % 3 = 2) => log[i] \in {"onRetry", "console.error"}
       /\ (i % 3 = 0) => log[i] = "sleep"

\* fn fails with a rate-limit signal maxAttempts-1 times and then succeeds
FailsThenSucceeds ==
  /\ maxAttempts >= 1
  /\ Len(fnScript) = maxAttempts
  /\ \A i \in 1..(maxAttempts - 1) : RateLimitSignal(fnScript[i])
  /\ fnScript[maxAttempts] = Ok

\* C4: when fn fails with a rate-limit signal exactly maxAttempts-1 times and then
\* succeeds, withRetry resolves with the value of the successful invocation, fn was
\* invoked exactly maxAttempts times and sleep exactly maxAttempts-1 times, once
\* between each two consecutive attempts.
C4_RetriesThenSucceeds ==
  FailsThenSucceeds =>
    /\ calls <= maxAttempts
    /\ RetryDone =>
         /\ retryResult.state = "resolved"
         /\ retryResult.value = maxAttempts /\ retryResult.call = maxAttempts
         /\ calls = maxAttempts
         /\ Len(sleeps) = maxAttempts - 1
         /\ AlternatingLog(maxAttempts)

C4_Witness ==
  /\ RetryDone /\ FailsThenSucceeds /\ maxAttempts = 3
  /\ retryResult.state = "resolved" /\ Len(sleeps) = 2

\* fn fails with a rate-limit signal on each of the first maxAttempts attempts
AlwaysRateLimited ==
  /\ maxAttempts >= 1
  /\ Len(fnScript) >= maxAttempts
  /\ \A i \in 1..maxAttempts : RateLimitSignal(fnScript[i])

\* C5: when fn fails with a rate-limit signal on maxAttempts consecutive attempts
\* (maxAttempts >= 1), withRetry rejects with the error of the last attempt,
\* unchanged; fn was invoked exactly maxAttempts times, and no sleep or retry
\* notification follows the final failure.
C5_ExhaustedRethrowsLast ==
  AlwaysRateLimited =>
    /\ calls <= maxAttempts
    /\ RetryDone =>
         /\ retryResult = Rejected(fnScript[maxAttempts], maxAttempts)
         /\ calls = maxAttempts
         /\ Len(sleeps) = maxAttempts - 1
         /\ Cardinality(Notifications) = maxAttempts - 1
         /\ log[Len(log)] = "call"

C5_Witness ==
  /\ RetryDone /\ AlwaysRateLimited /\ maxAttempts = 3 /\ ~viaClient
  /\ retryResult.state = "rejected" /\ calls = 3

\* C6: a failure that is not a rate-limit signal is never retried: on whatever
\* attempt it occurs, withRetry rejects at once with that same error, fn is not
\* invoked again, and no sleep or retry notification is made for it.
C6_OtherErrorsNotRetried ==
  \A i \in 1..calls :
     (FnOutcome(fnScript, i).kind = "err" /\ ~RateLimitSignal(FnOutcome(fnScript, i))) =>
        /\ i = calls
        /\ RetryDone
        /\ retryResult = Rejected(FnOutcome(fnScript, i), i)
        /\ Len(sleeps) = i - 1
        /\ Cardinality(Notifications) = i - 1
        /\ Len(onRetryCalls) = (IF hasOnRetry THEN i - 1 ELSE 0)
        /\ log[Len(log)] = "call"

C6_Witness ==
  /\ RetryDone /\ calls = 2 /\ maxAttempts = 4
  /\ FnOutcome(fnScript, 2) = ErrBadRequest
  /\ retryResult.state = "rejected" /\ Len(sleeps) = 1

\* C7: a call through the retry-wrapped client that keeps answering 429 is
\* attempted 5 times before the rate-limit error is surfaced.
C7_ClientRetriesFiveTimes ==
  (RetryDone /\ viaClient /\ \A i \in 1..Len(fnScript) : fnScript[i] = ErrBoth) =>
     /\ retryResult.state = "rejected"
     /\ calls = DocumentedMaxAttempts

(***************************************************************************)
(* Properties of the filter parser and builder                             *)
(***************************************************************************)
Contains(str, op) == indexOf(str, op) >= 0

ParsedNow == fpc \in {"parsed", "built"}

\* C8: a filter string containing '>=' is parsed with operator '>=' and never '>';
\* one containing '<=' is never parsed with operator '<'; one containing '!=' is
\* never parsed with operator '='.
C8_MultiCharOperatorsWin ==
  ParsedNow =>
    /\ Contains(filterStr, OpGe) => (~parsed.error /\ parsed.operator = OpGe)
    /\ Contains(filterStr, OpLe) => parsed.operator # OpLt
    /\ Contains(filterStr, OpNe) => parsed.operator # OpEq

\* an operator occurs in str at 0-based index i
OperatorAt(str, i) ==
  \E k \in 1..Len(ops) : SubSeq(str, i + 1, i + Len(ops[k])) = ops[k]

\* C9: the string is split at the leftmost operator occurrence after the
\* property name, so operator characters inside the value stay in the value:
\* 'Description=score>=90' is (Description, =, score>=90) and 'Name=a=b=c' is
\* (Name, =, a=b=c).
C9_SplitAtLeftmostOperator ==
  (ParsedNow /\ ~parsed.error) =>
    /\ \A i \in 1..(Len(parsed.key) - 1) : ~OperatorAt(filterStr, i)
    /\ filterStr = ReadmeDescriptionScore =>
         parsed = [error |-> FALSE, key |-> DescriptionProp, operator |-> OpEq,
                   value |-> <<"s", "c", "o", "r", "e", ">", "=", "9", "0">>]
    /\ filterStr = TestNameABC =>
         parsed = [error |-> FALSE, key |-> NameProp, operator |-> OpEq,
                   value |-> <<"a", "=", "b", "=", "c">>]

ComparisonOps == {OpGt, OpLt, OpGe, OpLe}
NonOrderedTypes == {"title", "rich_text", "select", "multi_select", "checkbox", "status"}

\* C10: a comparison operator (>, <, >=, <=) on a title, rich_text, select,
\* multi_select, checkbox or status property makes buildFilterFromSchema return
\* an error naming the operator and the type, and no filter.
C10_UnsupportedOperatorIsError ==
  (/\ fpc = "built"
   /\ ~parsed.error
   /\ SchemaHas(toLowerCase(parsed.key))
   /\ SchemaGet(toLowerCase(parsed.key)).type \in NonOrderedTypes
   /\ parsed.operator \in ComparisonOps) =>
     /\ filterResult.kind = "error"
     /\ filterResult.error.operator = parsed.operator
     /\ filterResult.error.type = SchemaGet(toLowerCase(parsed.key)).type
     /\ filterResult.filter = NoFilter

\* the condition key the filter table gives for a supported (type, operator) cell
TableKey(type, op) ==
  CASE op = OpEq /\ type \in {"title", "rich_text", "multi_select"} -> "contains"
    [] op = OpNe /\ type \in {"title", "rich_text", "multi_select"} -> "does_not_contain"
    [] op = OpEq /\ type \in {"select", "status", "number", "checkbox"} -> "equals"
    [] op = OpNe /\ type \in {"select", "status", "number", "checkbox"} -> "does_not_equal"
    [] op = OpGt /\ type = "number" -> "greater_than"
    [] op = OpLt /\ type = "number" -> "less_than"
    [] op = OpGe /\ type = "number" -> "greater_than_or_equal_to"
    [] op = OpLe /\ type = "number" -> "less_than_or_equal_to"
    [] op = OpGt /\ type = "date" -> "after"
    [] op = OpLt /\ type = "date" -> "before"
    [] op = OpGe /\ type = "date" -> "on_or_after"
    [] op = OpLe /\ type = "date" -> "on_or_before"
    [] OTHER -> "unsupported"

BuiltOnSchemaProperty ==
  fpc = "built" /\ ~parsed.error /\ SchemaHas(toLowerCase(parsed.key))

BuiltType == SchemaGet(toLowerCase(parsed.key)).type

\* C11: for every supported (type, operator) cell of the filter table the result
\* is {property: canonicalName, [type]: {K: v}} with exactly the one condition
\* key K of the table, v being a number for number and a boolean for checkbox.
C11_FilterTable ==
  (BuiltOnSchemaProperty /\ TableKey(BuiltType, parsed.operator) # "unsupported") =>
     /\ filterResult.kind = "filter"
     /\ filterResult.error = NoError
     /\ filterResult.filter.property = SchemaGet(toLowerCase(parsed.key)).name
     /\ filterResult.filter.condition.ftype = BuiltType
     /\ Cardinality(filterResult.filter.condition.inner) = 1
     /\ \E kv \in filterResult.filter.condition.inner :
          /\ kv[1] = TableKey(BuiltType, parsed.operator)
          /\ BuiltType = "number" =>
               (kv[2].tag \in {"number", "NaN"} /\ kv[2] = NumberOf(parsed.value))
          /\ BuiltType = "checkbox" =>
               /\ kv[2].tag = "boolean"
               /\ kv[2].b = (parsed.value \in {<<"t", "r", "u", "e">>, <<"1">>,
                                               <<"y", "e", "s">>})
          /\ BuiltType \in {"title", "rich_text", "select", "multi_select", "status"} =>
               kv[2] = StrVal(parsed.value)

C11_Witness ==
  /\ BuiltOnSchemaProperty /\ BuiltType = "number" /\ parsed.operator = OpGe
  /\ filterResult.filter.condition.inner =
       {<<"greater_than_or_equal_to", NumVal(5)>>}

(***************************************************************************)
(* Properties of buildCompoundFilter                                       *)
(***************************************************************************)
CompoundDone == cpc = "done"
Built(i) == buildFilterFromSchema(filterStrs[i], tzEast)
Fails(i) == Built(i).kind = "error"
FirstFailing == CHOOSE i \in 1..Len(filterStrs) :
                  Fails(i) /\ \A j \in 1..(i - 1) : ~Fails(j)

\* C12: with two or more inputs that all build, the result is the 'and' of
\* the inputs' conditions in input order; if some input fails, the result is
\* exactly the error result of the first failing input, with no filter and no
\* partial 'and'; with exactly one input the result is that input's bare
\* result, not wrapped in 'and'.
C12_CompoundFilter ==
  CompoundDone =>
    /\ (Len(filterStrs) >= 2 /\ \A i \in 1..Len(filterStrs) : ~Fails(i)) =>
          /\ compoundResult.kind = "and"
          /\ compoundResult.error = NoError
          /\ compoundResult.and = [i \in 1..Len(filterStrs) |-> Built(i).filter]
    /\ (Len(filterStrs) >= 2 /\ \E i \in 1..Len(filterStrs) : Fails(i)) =>
          /\ compoundResult = Single(Built(FirstFailing))
          /\ compoundResult.kind = "error"
          /\ compoundResult.filter = NoFilter
          /\ compoundResult.and = <<>>
    /\ Len(filterStrs) = 1 =>
          /\ compoundResult = Single(Built(1))
          /\ compoundResult.kind \in {"filter", "error"}

\* three inputs, the first builds, the second and third both fail differently
C12_Witness ==
  /\ CompoundDone
  /\ filterStrs = <<<<"S", "=", "x">>, <<"a", "a", "a">>, <<"z", "=", "5">>>>
  /\ compoundResult.error.msg = "Invalid filter format"

\* two inputs that both build, in an order that matters
C12_WitnessAnd ==
  /\ CompoundDone
  /\ filterStrs = <<<<"S", "=", "x">>, <<"a", "=", "5">>>>
  /\ compoundResult.kind = "and"
  /\ compoundResult.and[1].property = <<"S">>
  /\ compoundResult.and[2].property = <<"a">>

(***************************************************************************)
(* Properties of buildPropValue                                            *)
(***************************************************************************)
PropBuilt == bpc = "built"

\* a real calendar date written YYYY-MM-DD
RealCalendarDate(v) ==
  /\ ISO_DATE_ONLY_REGEX(v)
  /\ MonthOf(v) \in 1..12
  /\ DayOf(v) \in 1..DaysInMonth(YearOf(v), MonthOf(v))

\* a full ISO-8601 datetime with Z or an offset: a real calendar date, 'T', a
\* time of day, an optional fraction and the zone
FullIsoDateTime(v) ==
  /\ ISO_DATE_TIME_REGEX(v)
  /\ RealCalendarDate(SubSeq(v, 1, 10))
  /\ HourOf(v) <= 23 /\ MinuteOf(v) <= 59 /\ SecondOf(v) <= 59

InvalidClass(type, value) ==
  \/ type = "number" /\ NumberOf(value).tag = "NaN"
  \/ type = "date" /\ ~RealCalendarDate(value) /\ ~FullIsoDateTime(value)
  \/ type = "url" /\ ~startsWith(value, <<"h", "t", "t", "p", ":", "/", "/">>)
                  /\ ~startsWith(value, <<"h", "t", "t", "p", "s", ":", "/", "/">>)
  \/ type = "email" /\ ~includes(value, <<"@">>)

\* C13: buildPropValue returns an error result, and no typed payload, exactly
\* for the invalid classes (a number that coerces to NaN, a date that is
\* neither a real calendar YYYY-MM-DD date nor a full ISO-8601 datetime with
\* Z/offset, a url without http(s):// prefix, an email without '@'); for every
\* other (type, value) it returns the payload keyed by the type.
C13_ErrorExactlyForInvalidClasses ==
  PropBuilt =>
    /\ built.key = "error" <=> InvalidClass(propType, propRaw)
    /\ built.key # "error" => built.key = propType

\* C14: a multi_select payload holds no entry with an empty name, whatever
\* stray commas the raw value has, and a value without a comma yields exactly
\* one entry.
C14_MultiSelectNoEmptyNames ==
  (PropBuilt /\ propType = "multi_select") =>
    /\ built.key = "multi_select"
    /\ \A i \in 1..Len(built.names) : built.names[i] # <<>>
    /\ ~includes(propRaw, <<",">>) => Len(built.names) = 1

(***************************************************************************)
(* Properties of the add and update commands                               *)
(***************************************************************************)
Malformed(kv) == ~includes(kv, <<"=">>)
AbsentFromSchema(kv) == ~Malformed(kv) /\ ~SchemaHas(toLowerCase(KvKey(kv)))
FailsValidation(kv) ==
  /\ ~Malformed(kv) /\ ~AbsentFromSchema(kv)
  /\ buildPropValue(SchemaGet(toLowerCase(KvKey(kv))).type, KvValue(kv)).key = "error"
BadInput == \E i \in 1..Len(allProps) :
              Malformed(allProps[i]) \/ AbsentFromSchema(allProps[i])
              \/ FailsValidation(allProps[i])
Issued(name) == \E i \in 1..Len(netLog) : netLog[i] = name

BlockText(block) == join([i \in 1..Len(block.rich_text) |-> block.rich_text[i].content],
                         <<>>)

\* C16: for markdown made only of supported constructs, without blank lines
\* and inline formatting, markdownToBlocks(blocksToMarkdown(markdownToBlocks(md)))
\* has the same sequence of block types, with the same text content, as
\* markdownToBlocks(md).
C16_RoundTrip ==
  mdpc = "reparsed" =>
    /\ Len(reparsed) = Len(blocks)
    /\ \A i \in 1..Len(blocks) :
         i <= Len(reparsed) =>
           /\ reparsed[i].type = blocks[i].type
           /\ BlockText(reparsed[i]) = BlockText(blocks[i])

(***************************************************************************)
(* Properties of extractDynamicProps                                       *)
(***************************************************************************)
DynDone == dpc = "done"

\* a '--flag' token outside the known flags whose name matches a schema property
MatchingFlag(arg) ==
  IsFlagToken(arg) /\ ~IsKnownFlag(arg) /\ kebabToProperty(FlagName(arg)) # NoEntry
PairAt(i) == kebabToProperty(FlagName(argv[i])).name \o <<"=">> \o argv[i + 1]

\* the output when every matching flag that has a following token consumes it
RECURSIVE EveryMatchConsumes(_)
EveryMatchConsumes(i) ==
  IF i > Len(argv) THEN <<>>
  ELSE IF MatchingFlag(argv[i]) /\ i + 1 <= Len(argv)
    THEN <<PairAt(i)>> \o EveryMatchConsumes(i + 2)
    ELSE EveryMatchConsumes(i + 1)

Emitting == {i \in 1..Len(argv) :
               /\ MatchingFlag(argv[i])
               /\ i + 1 <= Len(argv)
               /\ ~startsWith(argv[i + 1], DoubleDash)}
RECURSIVE Ascending(_)
Ascending(S) ==
  IF S = {} THEN <<>>
  ELSE LET least == CHOOSE i \in S : \A j \in S : i <= j
       IN <<least>> \o Ascending(S \ {least})

KeywordOffset(lower) ==
  CASE lower = KwToday -> 0
    [] lower = KwYesterday -> -1
    [] lower = KwTomorrow -> 1
    [] lower \in {KwLastWeek, KwLastWeekDash} -> -7
    [] lower \in {KwNextWeek, KwNextWeekDash} -> 7
IsKeyword(lower) ==
  lower \in {KwToday, KwYesterday, KwTomorrow, KwLastWeek, KwLastWeekDash,
             KwNextWeek, KwNextWeekDash}

\* C18: in every time zone resolveRelativeDate returns the current local
\* calendar date for 'today' and that date offset by -1, +1, -7, +7 days for
\* yesterday, tomorrow, last_week/last-week and next_week/next-week, matched
\* case-insensitively; any other input is returned unchanged.
C18_LocalCalendarDate ==
  fpc = "resolved" =>
    IF IsKeyword(toLowerCase(filterStr))
      THEN resolved = DayVal(KeywordOffset(toLowerCase(filterStr)))
      ELSE resolved = StrVal(filterStr)

(***************************************************************************)
(* Terminal states and request sizes of paginate                           *)
(***************************************************************************)
Exhausted == ~ret.has_more /\ ~ret.truncated /\ ret.next_cursor = CursorNull

\* C19 (as stated): every returned value is either exhausted or capped, where
\* capped means truncated = true, has_more = true and next_cursor is the cursor
\* the last fetched page reported, never null or undefined.
C19_AsStated ==
  Returned =>
    \/ Exhausted
    \/ /\ ret.truncated /\ ret.has_more
       /\ lastPage > 0
       /\ ret.next_cursor = PageNextCursor(pages, lastPage)
       /\ ret.next_cursor \notin {CursorNull, CursorUndefined}

\* C19 (amended): every returned value is in exactly one of two terminal
\* states: exhausted (has_more = false, truncated = false, next_cursor = null)
\* or capped (truncated = true, has_more = true), where the capped next_cursor
\* is whatever the last fetched page reported as next_cursor, null if it
\* reported none, and undefined when the limit was 0 and no page was fetched.
C19_TerminalStates ==
  Returned =>
    /\ ret.has_more = ret.truncated
    /\ ~ret.truncated => Exhausted
    /\ ret.truncated =>
         /\ ~Exhausted
         /\ ret.next_cursor = IF lastPage = 0 THEN CursorUndefined
                              ELSE PageNextCursor(pages, lastPage)
         /\ lastPage = 0 <=> limit = 0

\* capped by a slice in the middle of the second page, whose cursor is kept
C19_Witness ==
  /\ Returned /\ ret.truncated /\ ret.has_more
  /\ lastPage = 2 /\ cutMidPage
  /\ ret.next_cursor = 2

\* C20: paginate issues no fetch once the accumulated count has reached the
\* limit (none at all with limit 0); every fetch asks for
\* min(pageSizeLimit, limit - accumulated) results when a limit is set and for
\* pageSizeLimit otherwise, which is at least 1 and at most the remaining budget.
C20_FetchWithinBudget ==
  [][Len(requests') > Len(requests) =>
       LET req == requests'[Len(requests')]
       IN /\ Len(requests') = Len(requests) + 1
          /\ req.page_size >= 1
          /\ hasLimit =>
               /\ Len(results) < limit
               /\ req.page_size = Min(pageSizeLimit, limit - Len(results))
               /\ req.page_size <= limit - Len(results)
          /\ ~hasLimit => req.page_size = pageSizeLimit]_vars

\* a second fetch that asks for less than pageSizeLimit because one result of
\* the budget is left
C20_Witness ==
  /\ hasLimit /\ limit = 3 /\ pageSizeLimit = 2
  /\ Len(requests) = 2
  /\ requests[1].page_size = 2
  /\ requests[2].page_size = 1

(***************************************************************************)
(* Sequencing of the page fetches                                          *)
(***************************************************************************)
\* fetches that have fulfilled or rejected
Settled == lastPage + (IF ppc = "rejected" THEN 1 ELSE 0)

\* fetches issued and not yet settled
InFlight == Len(requests) - Settled

\* C21: paginate issues its fetches strictly one after the other: at most one
\* fetch is in flight at any time, and exactly while paginate awaits it, so
\* fetch k+1 is issued only after fetch k has resolved; the first fetch carries
\* no start_cursor (undefined), and the start_cursor of fetch k+1 is the
\* next_cursor that fetch k returned.
C21_SequentialFetches ==
  /\ InFlight \in {0, 1}
  /\ InFlight = 1 <=> ppc = "await"
  /\ \A k \in 1..Len(requests) :
       requests[k].start_cursor =
         IF k = 1 THEN CursorUndefined ELSE PageNextCursor(pages, k - 1)

\* the third fetch is in flight, carrying the cursor of the second page
C21_Witness ==
  /\ ppc = "await" /\ Len(requests) = 3 /\ lastPage = 2
  /\ requests[1].start_cursor = CursorUndefined
  /\ requests[2].start_cursor = 1
  /\ requests[3].start_cursor = 2

(***************************************************************************)
(* The response envelope of paginate                                       *)
(***************************************************************************)
\* C22: the envelope paginate returns carries the non-list fields of the last
\* raw page fetched (with results, has_more and next_cursor replaced by the
\* accumulated list and the final values); after several fetches the fields
\* are those of the last page, not of an earlier one.
C22_EnvelopeOfLastPage ==
  (Returned /\ lastPage > 0) => ret.response = lastPage

(***************************************************************************)
(* Backoff delays of withRetry                                             *)
(***************************************************************************)
\* C23: with jitter disabled the delay slept after the n-th failed attempt is
\* exactly baseDelayMs * 2^(n-1), for n = 1 .. maxAttempts - 1: the sleeps of
\* one call are baseDelayMs, 2 * baseDelayMs, 4 * baseDelayMs, ... in that
\* order, one per failed attempt that is retried.
C23_ExponentialBackoff ==
  (rpc # "idle" /\ ~jitter) =>
    /\ \A n \in 1..Len(sleeps) : sleeps[n] = baseDelayMs * 2^(n - 1)
    /\ Len(sleeps) = (IF rpc = "sleeping" THEN attempt ELSE attempt - 1)
    /\ maxAttempts >= 1 => Len(sleeps) <= maxAttempts - 1

\* three failed attempts: slept 10, 20 and 40 ms
C23_Witness ==
  /\ ~jitter /\ baseDelayMs = 10 /\ maxAttempts = 4
  /\ sleeps = <<10, 20, 40>>

(***************************************************************************)
(* Per-line dispatch of markdownToBlocks                                   *)
(***************************************************************************)
MdParsed == mdpc # "input" /\ mdpc # "idle"

MdSourceLines == split(md, Newline)

StartsFence(line) == Len(line) >= 3 /\ \A j \in 1..3 : line[j] = Backtick

\* the number of fence lines before line i: even outside a fenced block
FencesBefore(lines, i) == Cardinality({j \in 1..(i - 1) : StartsFence(lines[j])})

OutsideFence(lines, i) == FencesBefore(lines, i) % 2 = 0

\* a run of three or more c, then only spaces
IsRule(line, c) ==
  \E k \in 3..Len(line) :
    line = [j \in 1..Len(line) |-> IF j <= k THEN c ELSE " "]

IsNumbered(line) ==
  \E k \in 1..Len(line) :
    /\ Len(line) >= k + 2
    /\ \A j \in 1..k : line[j] \in {"0", "1", "2", "3", "4", "5", "6", "7", "8", "9"}
    /\ line[k + 1] = "." /\ line[k + 2] = " "

\* the dispatch rules in their fixed order, each with the pattern it matches
DispatchOrder ==
  <<"code", "divider", "heading_3", "heading_2", "heading_1", "quote", "to_do",
    "bulleted_list_item", "numbered_list_item", "blank", "paragraph">>

RuleMatches(rule, line) ==
  CASE rule = "code" -> StartsFence(line)
    [] rule = "divider" -> IsRule(line, "-") \/ IsRule(line, "*")
    [] rule = "heading_3" -> startsWith(line, <<"#", "#", "#", " ">>)
    [] rule = "heading_2" -> startsWith(line, <<"#", "#", " ">>)
    [] rule = "heading_1" -> startsWith(line, <<"#", " ">>)
    [] rule = "quote" -> startsWith(line, <<">", " ">>)
    [] rule = "to_do" -> startsWith(line, <<"-", " ", "[", " ", "]", " ">>)
                         \/ startsWith(line, <<"-", " ", "[", "x", "]", " ">>)
    [] rule = "bulleted_list_item" ->
         startsWith(line, <<"-", " ">>) \/ startsWith(line, <<"*", " ">>)
    [] rule = "numbered_list_item" -> IsNumbered(line)
    [] rule = "blank" -> \A j \in 1..Len(line) : line[j] = " "
    [] rule = "paragraph" -> TRUE

FirstRule(line) ==
  DispatchOrder[CHOOSE r \in 1..Len(DispatchOrder) :
                  /\ RuleMatches(DispatchOrder[r], line)
                  /\ \A q \in 1..(r - 1) : ~RuleMatches(DispatchOrder[q], line)]

\* the lines that produce a block: outside a fenced block and not blank
\* (an opening fence produces the code block)
Producing(lines) ==
  {i \in 1..Len(lines) : OutsideFence(lines, i) /\ FirstRule(lines[i]) # "blank"}

\* the line that produced the m-th block
RECURSIVE NthOf(_, _)
NthOf(set, m) ==
  LET least == CHOOSE i \in set : \A j \in set : i <= j
  IN IF m = 1 THEN least ELSE NthOf(set \ {least}, m - 1)

\* C24: every line outside a fenced code block produces the block of the first
\* rule it matches in the order code fence, divider, heading 3, heading 2,
\* heading 1, quote, todo, bullet, numbered item, blank (no block), paragraph;
\* a line starting with "- [ ] " or "- [x] " becomes a to_do block (checked
\* false / true), never a bulleted_list_item, and a line starting with "### "
\* becomes heading_3, never heading_1 or heading_2.
C24_FirstMatchingRule ==
  MdParsed =>
    LET lines == MdSourceLines
    IN /\ Len(blocks) = Cardinality(Producing(lines))
       /\ \A m \in 1..Len(blocks) :
            LET line == lines[NthOf(Producing(lines), m)]
            IN /\ blocks[m].type = FirstRule(line)
               /\ startsWith(line, <<"-", " ", "[", " ", "]", " ">>) =>
                    blocks[m].type = "to_do" /\ ~blocks[m].checked
               /\ startsWith(line, <<"-", " ", "[", "x", "]", " ">>) =>
                    blocks[m].type = "to_do" /\ blocks[m].checked
               /\ startsWith(line, <<"#", "#", "#", " ">>) =>
                    blocks[m].type = "heading_3"

\* an open todo, a done todo and a level-3 heading, each parsed as such
C24_Witness ==
  /\ MdParsed
  /\ MdSourceLines = <<LTodoOpen, LTodoDone, LH3>>
  /\ blocks[1].type = "to_do" /\ ~blocks[1].checked
  /\ blocks[2].type = "to_do" /\ blocks[2].checked
  /\ blocks[3].type = "heading_3"

(***************************************************************************)
(* Fenced code blocks of markdownToBlocks                                  *)
(***************************************************************************)
\* the lines that open a fenced block
Openers(lines) ==
  {i \in 1..Len(lines) : OutsideFence(lines, i) /\ StartsFence(lines[i])}

\* the first fence line after the opener i, Len + 1 when the block is not closed
CloserOf(lines, i) ==
  IF \E j \in (i + 1)..Len(lines) : StartsFence(lines[j])
    THEN CHOOSE j \in (i + 1)..Len(lines) :
           /\ StartsFence(lines[j])
           /\ \A k \in (i + 1)..(j - 1) : ~StartsFence(lines[k])
    ELSE Len(lines) + 1

\* the index of the block that line i produced
BlockOf(lines, i) == Cardinality({j \in Producing(lines) : j <= i})

\* C25: after an opening fence line all lines up to, not including, the next
\* line that starts with the fence become the content of one code block, joined
\* with newlines and kept verbatim whatever their own syntax; the lines after
\* the closing fence are parsed normally; without a closing fence all remaining
\* lines are consumed into that block, which is then the last one, and the
\* parser terminates.
C25_FencedCodeVerbatim ==
  MdParsed =>
    LET lines == MdSourceLines
    IN \A i \in Openers(lines) :
         LET close == CloserOf(lines, i)
             b == blocks[BlockOf(lines, i)]
         IN /\ BlockOf(lines, i) <= Len(blocks)
            /\ b.type = "code"
            /\ Len(b.rich_text) = 1
            /\ b.rich_text[1].content = join(SubSeq(lines, i + 1, close - 1), Newline)
            /\ \A j \in (i + 1)..(close - 1) : j \notin Producing(lines)
            /\ close >= Len(lines) => BlockOf(lines, i) = Len(blocks)
            /\ (close < Len(lines) /\ FirstRule(lines[close + 1]) # "blank") =>
                 /\ BlockOf(lines, close + 1) = BlockOf(lines, i) + 1
                 /\ blocks[BlockOf(lines, close + 1)].type = FirstRule(lines[close + 1])

\* a heading and a divider kept verbatim inside the fence, a bullet parsed after it
C25_Witness ==
  /\ MdParsed
  /\ MdSourceLines = <<LFence, LH3, LRule, LFence, LDash>>
  /\ Len(blocks) = 2
  /\ blocks[1].type = "code"
  /\ blocks[1].rich_text[1].content = LH3 \o Newline \o LRule
  /\ blocks[2].type = "bulleted_list_item"

(***************************************************************************)
(* A failing fetch                                                         *)
(***************************************************************************)
\* C26: when a fetchPage call rejects, paginate rejects with that same error
\* and delivers no result: the results accumulated from the earlier pages are
\* not returned, and the failing fetch is the last one issued.
C26_RejectionPropagates ==
  /\ rejection # Ok =>
       /\ ppc = "rejected"
       /\ thrown = rejection
       /\ ret = NoRet
       /\ Len(requests) = lastPage + 1
  /\ ppc = "rejected" <=> rejection # Ok
  /\ Returned => thrown = Ok

\* the third fetch rejects after two pages had been accumulated
C26_Witness ==
  /\ ppc = "rejected" /\ thrown = ErrBoth
  /\ lastPage = 2 /\ Len(requests) = 3 /\ Len(results) >= 2
  /\ ret = NoRet

(***************************************************************************)
(* Termination of paginate                                                 *)
(***************************************************************************)
Settles == ppc \in {"done", "threw", "rejected"}

\* C27: a paginate call with a limit always runs to completion, whatever the
\* upstream returns, pages with empty results and has_more = true included: it
\* returns (or rejects) after finitely many fetches.
C27_LimitedCallTerminates == <>Settles

(***************************************************************************)
(* Pagination over the retry-wrapped client                                *)
(***************************************************************************)
\* the run of paginate in which every fetch succeeds at once: the state after
\* k pages, with the results and the cursor accumulated so far
RECURSIVE FailureFreeRun(_, _, _)
FailureFreeRun(k, res, cur) ==
  IF hasLimit /\ limit - Len(res) <= 0
    THEN [results |-> res, truncated |-> TRUE, next_cursor |-> cur]
  ELSE LET page == PageResults(pages, k + 1)
           next == PageNextCursor(pages, k + 1)
           more == PageHasMore(pages, k + 1)
       IN IF hasLimit /\ Len(page) > limit - Len(res)
            THEN [results |-> res \o SubSeq(page, 1, limit - Len(res)),
                  truncated |-> TRUE, next_cursor |-> next]
          ELSE IF more /\ hasLimit /\ Len(res) + Len(page) >= limit
            THEN [results |-> res \o page, truncated |-> TRUE, next_cursor |-> next]
          ELSE IF more
            THEN FailureFreeRun(k + 1, res \o page, next)
          ELSE [results |-> res \o page, truncated |-> FALSE,
                next_cursor |-> CursorNull]

\* the request paginate makes for page k
RequestFor(k) ==
  [start_cursor |-> IF k = 1 THEN CursorUndefined ELSE PageNextCursor(pages, k - 1),
   page_size |-> IF hasLimit
                   THEN Min(QueryPageSizeLimit, limit - SumLen(pages, k - 1))
                   ELSE QueryPageSizeLimit]

\* C28: when paginate drives the retry-wrapped client, a rate-limit failure
\* while fetching page n is retried inside that one fetchPage call, with the
\* start_cursor and page_size of that call: paginate issues exactly one request
\* per page, in order, and never one for an earlier page again; when the
\* retries succeed, the results, the truncated flag and next_cursor are those
\* of the run without any failure; when page n exhausts its retry budget,
\* paginate rejects with that rate-limit error.
C28_RetryInPlace ==
  /\ rpc # "idle" => ppc \in {"await", "rejected"}
  /\ Len(requests) <= lastPage + 1
  /\ \A k \in 1..Len(requests) : requests[k] = RequestFor(k)
  /\ Returned =>
       LET run == FailureFreeRun(0, <<>>, CursorUndefined)
       IN /\ ret.results = run.results
          /\ ret.truncated = run.truncated
          /\ ret.next_cursor = (IF run.truncated THEN run.next_cursor ELSE CursorNull)
  /\ (rpc = "done" /\ retryResult.state = "rejected" /\ calls = DefaultMaxAttempts) =>
       /\ RateLimitSignal(retryResult.err)
       /\ ppc = "rejected" => thrown = retryResult.err /\ ret = NoRet
  /\ ppc = "rejected" => rpc = "done" /\ thrown = FnOutcome(fnScript, calls)

\* the second page is being fetched again after one rate-limit failure
C28_Witness ==
  /\ ppc = "await" /\ Len(requests) = 2 /\ lastPage = 1 /\ Len(results) >= 1
  /\ rpc = "loop" /\ calls = 1 /\ attempt = 2
  /\ RateLimitSignal(FnOutcome(fnScript, 1))

(***************************************************************************)
(* withRetry and the attempt budget                                        *)
(***************************************************************************)
\* C29: for every maxAttempts, 0 and negative numbers included, withRetry
\* invokes fn at least once, and it resolves only with the value a successful
\* invocation of fn returned: it never resolves without fn having succeeded.
C29_ResolvesOnlyWithFnValue ==
  rpc = "done" =>
    /\ calls >= 1
    /\ retryResult.state = "resolved" =>
         /\ FnOutcome(fnScript, calls).kind = "ok"
         /\ retryResult = ResolvedValue(calls)

(***************************************************************************)
(* The active workspace                                                    *)
(***************************************************************************)
\* C30: after any sequence of init, workspace add, workspace use and workspace
\* remove on a loaded config, config.activeWorkspace names a key of
\* config.workspaces: remove never deletes the active workspace, use only
\* selects an existing workspace, and init creates the workspace it activates.
C30_ActiveWorkspaceExists ==
  wsCommand # "idle" => config.activeWorkspace \in Keys(config)
====
